---------------------------- MODULE Spec2Model ----------------------------
(***************************************************************************)
(* A model of the routing and lifetime core of PLEB: the visitor guard,    *)
(* the cooperative slot and pool, the weak-keyed child table, and the      *)
(* publish / issue dispatch of topics, relays, the conversion table and    *)
(* the trie of resource nodes.                                             *)
(*                                                                         *)
(* The module holds several specifications over one set of variables; each *)
(* specification moves only the variables of the component it models and   *)
(* leaves the others at their initial values.                              *)
(*   SpecGuard : one visitor_guard driven by a few threads                 *)
(*   SpecSlot  : the service slot of one node: serve(), service_lock()     *)
(*   SpecPool  : the subscriber pool of one node: subscribe(), publish()   *)
(*   SpecTable : the child table of one trie node: get_child(), try_child()*)
(*   SpecIssue : issue() of requests over a path of topic nodes            *)
(*   SpecPub   : publish() of events over a path of topic nodes            *)
(*   SpecRoute : relays and issue() over a small tree of topics            *)
(*   SpecConv  : the conversion table: set(), convert(), try_convert()     *)
(*   SpecTrie  : the tree of trie_ nodes: get(), find(), nearest()         *)
(*   SpecLink  : aliases in the child tables of two trees: make_link()     *)
(*   SpecPath  : the paths of trie_ nodes under roots of several ids       *)
(*   SpecMsg   : the ids of messages constructed by several threads        *)
(*   SpecFuture: clients bound to a std::future: async(), respond()        *)
(*   SpecView  : iteration over the segments of a topic_view               *)
(*   SpecBind  : a service function made by bind_service                   *)
(*   SpecVisit : visit_resources() over trees of resources                 *)
(*   SpecTree  : publish() through topics whose nodes are not all made     *)
(*   SpecCascade: publish() step by step, every subscriber throwing        *)
(*   SpecAuto  : one auto_request from construction to destruction         *)
(*   SpecServe : serve() on topics realized through one child table        *)
(***************************************************************************)
EXTENDS Integers, Sequences, FiniteSets, TLC

VARIABLES
    x,      \* SpecGuard: visitor_guard::_x, a 32-bit signed integer
    gpc,    \* SpecGuard: per thread, where it stands with respect to the guard
    pass,   \* per slot: slot::_pass, the _x of the slot's visitor_guard
    weak,   \* per slot: slot::_weak_t, the object it refers to (NoObj: empty)
    uses,   \* per object: the strong count of its shared_ptr control block
    life,   \* per object: "unborn", "alive", "destroying" (deleter running), "dead"
    nextObj,\* the next object to be constructed
    pc,     \* per thread: its position in the operation it runs
    tslot,  \* per thread: the slot its current slot operation works on
    tref,   \* per thread: the local shared_ptr of the running operation
    tflag,  \* per thread: the value expired() is about to return
    held,   \* per thread: the handle serve() returned to it and it still holds
    _map,   \* locking_weak_table::_map: per key, the node its weak_ptr refers to
    _mtx,   \* locking_weak_table::_mtx: the shared holders and the unique holder
    nuses,  \* per trie node: the strong count of its control block
    nkey,   \* per trie node: the id it was created with
    nextNode, \* the next trie node to be created
    kpc,    \* per thread: its position in the table operation it runs
    kkey,   \* per thread: the key of the running table operation
    knode,  \* per thread: the node the last table operation returned to it
    chain,  \* pool: the number of buffers linked from _first through _next
    pubHeld,\* the subscriptions whose handles were held when publish() began
    pubSeen,\* per subscription: the times the running publish() invoked it
    services,   \* per topic node: the service installed on it, as issue() sees it
    request,    \* the request handed to the last issue()
    issued,     \* what the last issue() did
    subscribers,\* the subscriptions of the topic nodes, in pool order per node
    event,      \* the event handed to the last publish()
    published,  \* what the last publish() did
    relayed, \* SpecRoute: what the last forward_requests() / forward_events() did
    converted, \* SpecConv: what the last convert() / try_convert() did
    trie, \* SpecTrie: the trie_ nodes: their counts, parents, ids, child tables and holders
    searched, \* SpecTrie: what the last get() / find() / nearest() / try_child() returned
    id_counter, \* detail::id_counter<message_base>, the id the next message gets
    ids, \* per thread: the ids of the messages it has constructed, in order
    promise, \* per client: the std::promise of a client_promise, and what kind it is
    responded, \* the last client::respond: the client and whether an exception left it
    view, \* a topic_view, the iterator that walks it and the segments it has yielded
    bound, \* a service function made by bind_service, the object it calls and what came of the last request
    visited, \* a tree of resources and the calls of the callback the last visit_resources made
    cascade, \* the publish() calls in progress on one thread, innermost last
    gop, \* the last of visit, join, enter and try_lock thread t called and has not left
    auto, \* SpecAuto: the one auto_request or auto_retrieve object and what was done with it
    nservice  \* SpecServe: per child node, whether a service is alive in its slot

guardVars == <<x, gpc, gop>>

slotVars == <<pass, weak, uses, life, nextObj, pc, tslot, tref, tflag, held>>

tableVars == <<_map, _mtx, nuses, nkey, nextNode, kpc, kkey, knode>>

poolVars == <<chain, pubHeld, pubSeen>>

issueVars == <<services, request, issued>>

pubVars == <<subscribers, event, published>>

relayVars == <<relayed>>

convVars == <<converted>>

trieVars == <<trie, searched>>

msgVars == <<id_counter, ids>>

futureVars == <<promise, responded>>

viewVars == <<view>>

bindVars == <<bound>>

visitVars == <<visited>>

cascadeVars == <<cascade>>

autoVars == <<auto>>

serveVars == <<nservice>>

nonGuardVars == <<slotVars, tableVars, poolVars, issueVars, pubVars, relayVars, convVars, trieVars, msgVars, futureVars, viewVars, bindVars, visitVars, cascadeVars, autoVars, serveVars>>

nonSlotVars == <<guardVars, tableVars, poolVars, issueVars, pubVars, relayVars, convVars, trieVars, msgVars, futureVars, viewVars, bindVars, visitVars, cascadeVars, autoVars, serveVars>>

nonTableVars == <<guardVars, slotVars, poolVars, issueVars, pubVars, relayVars, convVars, trieVars, msgVars, futureVars, viewVars, bindVars, visitVars, cascadeVars, autoVars, serveVars>>

nonPoolVars == <<guardVars, tableVars, issueVars, pubVars, relayVars, convVars, trieVars, msgVars, futureVars, viewVars, bindVars, visitVars, cascadeVars, autoVars, serveVars>>

nonIssueVars == <<guardVars, slotVars, tableVars, poolVars, pubVars, relayVars, convVars, trieVars, msgVars, futureVars, viewVars, bindVars, visitVars, cascadeVars, autoVars, serveVars>>

nonPubVars == <<guardVars, slotVars, tableVars, poolVars, issueVars, relayVars, convVars, trieVars, msgVars, futureVars, viewVars, bindVars, visitVars, cascadeVars, autoVars, serveVars>>

nonRouteVars == <<guardVars, slotVars, tableVars, poolVars, convVars, trieVars, msgVars, futureVars, viewVars, bindVars, visitVars, cascadeVars, autoVars, serveVars>>

nonConvVars == <<guardVars, slotVars, poolVars, issueVars, pubVars, relayVars, trieVars, msgVars, futureVars, viewVars, bindVars, visitVars, cascadeVars, autoVars, serveVars>>

nonTrieVars == <<guardVars, slotVars, tableVars, poolVars, issueVars, pubVars, relayVars, convVars, msgVars, futureVars, viewVars, bindVars, visitVars, cascadeVars, autoVars, serveVars>>

nonMsgVars == <<guardVars, slotVars, tableVars, poolVars, issueVars, pubVars, relayVars, convVars, trieVars, futureVars, viewVars, bindVars, visitVars, cascadeVars, autoVars, serveVars>>

nonFutureVars == <<guardVars, slotVars, tableVars, poolVars, issueVars, pubVars, relayVars, convVars, trieVars, msgVars, viewVars, bindVars, visitVars, cascadeVars, autoVars, serveVars>>

nonViewVars == <<guardVars, slotVars, tableVars, poolVars, issueVars, pubVars, relayVars, convVars, trieVars, msgVars, futureVars, bindVars, visitVars, cascadeVars, autoVars, serveVars>>

nonBindVars == <<guardVars, slotVars, tableVars, poolVars, issueVars, pubVars, relayVars, convVars, trieVars, msgVars, futureVars, viewVars, visitVars, cascadeVars, autoVars, serveVars>>

nonVisitVars == <<guardVars, slotVars, tableVars, poolVars, issueVars, pubVars, relayVars, convVars, trieVars, msgVars, futureVars, viewVars, bindVars, cascadeVars, autoVars, serveVars>>

nonCascadeVars == <<guardVars, slotVars, tableVars, poolVars, issueVars, pubVars, relayVars, convVars, trieVars, msgVars, futureVars, viewVars, bindVars, visitVars, autoVars, serveVars>>

nonAutoVars == <<guardVars, slotVars, tableVars, poolVars, issueVars, pubVars, relayVars, convVars, trieVars, msgVars, futureVars, viewVars, bindVars, visitVars, cascadeVars, serveVars>>

nonServeVars == <<guardVars, slotVars, poolVars, issueVars, pubVars, relayVars, convVars, trieVars, msgVars, futureVars, viewVars, bindVars, visitVars, cascadeVars, autoVars>>

vars == <<guardVars, slotVars, tableVars, poolVars, issueVars, pubVars, relayVars, convVars, trieVars, msgVars, futureVars, viewVars, bindVars, visitVars, cascadeVars, autoVars, serveVars>>

(***************************************************************************)
(* Bounds                                                                  *)
(***************************************************************************)
NGuardThreads == 4

NThreads == 3

MaxObj == 2

NTableThreads == 3

MaxNode == 3

NKeys == 2

\* number of distinct ids of children in the tree of trie_ nodes
NTrieIds == 1

\* the messages constructed in one run of SpecMsg
MaxMessages == 4

\* the clients bound to a future
NClients == 2

\* the length of the longest string a topic_view is made of
MaxLength == 6

\* the calls of its method a bound service function is followed through
MaxCalls == 2

\* the slots of the pool's first buffer (pool::basic_capacity, scaled down)
basic_capacity == 1

\* the buffers a pool's chain may grow to
MaxBuffers == 2

\* the topic nodes on the path from the root (node 1) to the deepest topic
Depth == 2

\* the subscriptions made on those nodes
MaxSubs == 2

GuardThreads == 1..NGuardThreads

Threads == 1..NThreads

Objs == 1..MaxObj

NoObj == 0

TableThreads == 1..NTableThreads

Nodes == 1..MaxNode

NoNode == 0

\* _map has no entry for the key (_find(key) == _map.end())
Absent == 0 - 1

\* the child ids looked up in one parent node
Keys == 1..NKeys

\* the ids a segment of a path in the tree of trie_ nodes is drawn from
TrieIds == 1..NTrieIds

\* slot 0 is resource_data::_service
ServiceSlot == 0

Buffers == 1..MaxBuffers

\* buffer_chain::more(): each buffer has twice the capacity of the one before
capacity(b) == basic_capacity * 2^(b - 1)

\* the slots of resource_data::_subs, numbered along the chain of buffers
slot_begin(b) == 1 + basic_capacity * (2^(b - 1) - 1)

slot_end(b) == slot_begin(b) + capacity(b)

PoolSlots == 1..(slot_end(MaxBuffers) - 1)

BufOf(s) == CHOOSE b \in Buffers : slot_begin(b) <= s /\ s < slot_end(b)

Slots == {ServiceSlot} \cup PoolSlots

TopicNodes == 1..Depth

\* resource_node::parent(): node 1 is the root, whose parent is null
NullNode == 0

parent(n) == n - 1

\* message filtering flags (flags::filtering), as the set of the bits set
FilterFlags == {"recursive", "subscriber_exception", "logging"}

default_receiver_ignore == {"subscriber_exception", "logging"}

default_subscription_ignore == default_receiver_ignore

default_service_ignore == default_receiver_ignore \cup {"recursive"}

\* no service on a node: service_lock() returns null
NoService == [live |-> FALSE, ignored |-> {}]

NoRequest ==
    [target |-> 1, resolved |-> TRUE, filtering |-> {}, features |-> {},
     _client |-> FALSE]

NoIssue ==
    [by |-> "none", does |-> "none", invoked |-> << >>, responses |-> << >>,
     outcome |-> "none", before |-> {}]

NoEvent == [target |-> 1, resolved |-> TRUE, filtering |-> {}]

\* the parent of the root topic, and the destination of a service or
\* subscription that is no relay
NullTopic == <<0>>

NoRelay ==
    [by |-> "none", from |-> << >>, to |-> << >>, ignored |-> {},
     thrown |-> FALSE, made |-> FALSE]

\* nothing converted yet
NoConverted == [by |-> "none", pair |-> 1, result |-> "none", rule |-> NoNode]

\* the root node, which the process holds for good
Root == 1

\* an id of zero length, which get() and _search() pass over
EmptyId == 0

\* a trie_ that no table refers to and nobody holds
NoChildren == [k \in TrieIds |-> Absent]

\* the entry of a child table whose weak_ptr has expired
Expired == 0 - 2

\* no trie_ exists
NoTrie ==
    [live |-> [n \in Nodes |-> FALSE], uses |-> [n \in Nodes |-> 0],
     _parent |-> [n \in Nodes |-> NoNode], id |-> [n \in Nodes |-> EmptyId],
     _children |-> [n \in Nodes |-> NoChildren],
     _path |-> [n \in Nodes |-> << >>],
     topics |-> [n \in Nodes |-> FALSE], service |-> NoNode,
     subscription |-> NoNode]

NoSearched == [by |-> "none", at |-> Root, path |-> << >>, node |-> NoNode]

Clients == 1..NClients

\* no client_promise has been made
NoPromise == [kind |-> "none", state |-> "unset", value |-> "none", completions |-> 0]

NoResponded == [to |-> 0, thrown |-> FALSE]

\* no topic_view has been made
NoView == [string |-> << >>, _sub |-> [data |-> 0, length |-> 0], yielded |-> << >>]

\* no service function has been bound
NoBound ==
    [instance |-> "none", allowed |-> {}, method |-> "none", payload |-> "void",
     called |-> << >>, response |-> "none"]

\* no tree has been visited
NoVisited ==
    [tree |-> {<< >>}, done |-> FALSE, depth |-> 0, skip_this |-> FALSE,
     calls |-> << >>]

\* no publish() is in progress
NoCascade == [by |-> "none", stack |-> << >>, deepest |-> 0]

\* no auto_request was constructed
NoAuto ==
    [state |-> "none", kind |-> "auto_request", explicit |-> "none",
     by_destructor |-> 0, invoked |-> 0, unwinding |-> FALSE]

NoPublish == [by |-> "none", trace |-> << >>, thrown |-> FALSE, raised |-> << >>]

(***************************************************************************)
(* visitor_guard: 32-bit two's complement arithmetic on _x                 *)
(***************************************************************************)
flag_open == 1073741824

flag_locked == 0 - flag_open

IntMax == flag_open + (flag_open - 1)

IntMin == (0 - flag_open) - flag_open

\* the low 31 bits of v, as a non-negative number
Low31(v) == IF v >= 0 THEN v ELSE (v + flag_open) + flag_open

Bit30(v) == Low31(v) >= flag_open

\* _x.fetch_add(1) and _x.fetch_sub(1): the stored value wraps
fetch_add(v) == IF v = IntMax THEN IntMin ELSE v + 1

fetch_sub(v) == IF v = IntMin THEN IntMax ELSE v - 1

\* _x.fetch_and(~flag_open)
fetch_and_not_open(v) == IF Bit30(v) THEN v - flag_open ELSE v

\* _x.fetch_or(flag_open)
fetch_or_open(v) == IF Bit30(v) THEN v ELSE v + flag_open

\* _x.fetch_and(~flag_locked): bits 31 and 30 cleared
fetch_and_not_locked(v) == Low31(fetch_and_not_open(v))

\* the tests visit(), join() and enter() make on the value fetch_add returned
visit_ok(r) == r >= flag_open

\* join() with the test of visit()
join_ok_open(r) == r >= flag_open

join_ok(r) == r >= 1

enter_ok_from_locked(r) == r >= flag_locked

enter_ok(r) == r >= 0

\* try_lock(): compare_exchange_strong(0, flag_locked) succeeds on this value
try_lock_open_too(v) == v = 0 \/ v = flag_open

try_lock_visited(v) == v >= 0 /\ v < flag_open

try_lock_ok(v) == v = 0

is_open(v) == v >= flag_open

is_locked(v) == v < 0

(***************************************************************************)
(* SpecGuard: threads calling the operations of one visitor_guard.         *)
(* gpc[t]: "idle"   outside the guard                                      *)
(*         "undo"   inside visit/join/enter after a failed fetch_add,      *)
(*                  before the leave() that takes the increment back       *)
(*         "inside" between a successful entry and its leave()             *)
(*         "locked" between a successful try_lock() and its unlock()       *)
(***************************************************************************)
\* visitor_guard(bool start_open = true): open or closed, nobody inside
GuardInit ==
    /\ x \in {flag_open, 0}
    /\ gpc = [t \in GuardThreads |-> "idle"]
    /\ pass = [s \in Slots |-> 0]
    /\ weak = [s \in Slots |-> NoObj]
    /\ uses = [o \in Objs |-> 0]
    /\ life = [o \in Objs |-> "unborn"]
    /\ nextObj = 1
    /\ pc = [t \in Threads |-> "idle"]
    /\ tslot = [t \in Threads |-> ServiceSlot]
    /\ tref = [t \in Threads |-> NoObj]
    /\ tflag = [t \in Threads |-> FALSE]
    /\ held = [t \in Threads |-> NoObj]
    /\ _map = [k \in Keys |-> Absent]
    /\ _mtx = [shared |-> {}, unique |-> {}]
    /\ nuses = [n \in Nodes |-> 0]
    /\ nkey = [n \in Nodes |-> 0]
    /\ nextNode = 1
    /\ kpc = [t \in TableThreads |-> "idle"]
    /\ kkey = [t \in TableThreads |-> 1]
    /\ knode = [t \in TableThreads |-> NoNode]
    /\ chain = 1
    /\ pubHeld = {}
    /\ pubSeen = [o \in Objs |-> 0]
    /\ services = [n \in TopicNodes |-> NoService]
    /\ request = NoRequest
    /\ issued = NoIssue
    /\ subscribers = << >>
    /\ event = NoEvent
    /\ published = NoPublish
    /\ relayed = NoRelay
    /\ converted = NoConverted
    /\ trie = NoTrie
    /\ searched = NoSearched
    /\ id_counter = 1
    /\ ids = [t \in Threads |-> << >>]
    /\ promise = [c \in Clients |-> NoPromise]
    /\ responded = NoResponded
    /\ view = NoView
    /\ bound = NoBound
    /\ visited = NoVisited
    /\ cascade = NoCascade
    /\ gop = [t \in GuardThreads |-> "none"]
    /\ auto = NoAuto
    /\ nservice = [n \in Nodes |-> FALSE]

Entry(t, op, ok) ==
    /\ gpc[t] = "idle"
    /\ x' = fetch_add(x)
    /\ gpc' = [gpc EXCEPT ![t] = IF ok THEN "inside" ELSE "undo"]
    /\ gop' = [gop EXCEPT ![t] = op]
    /\ UNCHANGED nonGuardVars

visit(t) == Entry(t, "visit", visit_ok(x))

join(t) == Entry(t, "join", join_ok(x))

enter(t) == Entry(t, "enter", enter_ok(x))

leave(t) ==
    /\ gpc[t] \in {"inside", "undo"}
    /\ x' = fetch_sub(x)
    /\ gpc' = [gpc EXCEPT ![t] = "idle"]
    /\ gop' = [gop EXCEPT ![t] = "none"]
    /\ UNCHANGED nonGuardVars

close(t) ==
    /\ gpc[t] # "undo"
    /\ x' = fetch_and_not_open(x)
    /\ UNCHANGED <<gpc, gop>>
    /\ UNCHANGED nonGuardVars

reopen(t) ==
    /\ gpc[t] # "undo"
    /\ x' = fetch_or_open(x)
    /\ UNCHANGED <<gpc, gop>>
    /\ UNCHANGED nonGuardVars

try_lock(t) ==
    /\ gpc[t] = "idle"
    /\ IF try_lock_ok(x)
         THEN x' = flag_locked /\ gpc' = [gpc EXCEPT ![t] = "locked"]
         ELSE UNCHANGED <<x, gpc>>
    /\ gop' = [gop EXCEPT ![t] = "try_lock"]
    /\ UNCHANGED nonGuardVars

unlock(t) ==
    /\ gpc[t] = "locked"
    /\ x' = fetch_and_not_locked(x)
    /\ gpc' = [gpc EXCEPT ![t] = "idle"]
    /\ gop' = [gop EXCEPT ![t] = "none"]
    /\ UNCHANGED nonGuardVars

GuardNext ==
    \E t \in GuardThreads :
        \/ visit(t)
        \/ join(t)
        \/ enter(t)
        \/ leave(t)
        \/ close(t)
        \/ reopen(t)
        \/ try_lock(t)
        \/ unlock(t)

SpecGuard == GuardInit /\ [][GuardNext]_vars

\* C3: between a successful try_lock() and its unlock() no visit(), join() or
\* enter() returns true, and try_lock() succeeds neither while a caller is
\* between a successful entry and its leave() nor while the guard is open.
C3_GuardExclusion ==
    [][ /\ \A t \in GuardThreads :
              (gpc[t] # "inside" /\ gpc'[t] = "inside")
                  => \A u \in GuardThreads : gpc[u] # "locked"
        /\ \A t \in GuardThreads :
              (gpc[t] # "locked" /\ gpc'[t] = "locked")
                  => /\ \A u \in GuardThreads : gpc[u] # "inside"
                     /\ ~is_open(x) ]_vars

\* an entry was attempted, and refused, while another thread holds the lock
C3_Witness ==
    \E t, u \in GuardThreads : gpc[t] = "locked" /\ gpc[u] = "undo"

\* the callers between a successful visit(), join() or enter() and the leave()
GuardReaders == {u \in GuardThreads : gpc[u] = "inside"}

\* the callers whose fetch_add(1) is counted in _x: the readers, and those a
\* visit(), join() or enter() refused that have not called leave() yet
Counted == {u \in GuardThreads : gpc[u] \in {"inside", "undo"}}

\* C33 as stated: join() returns true exactly when a reader is inside.
C33_AsStated ==
    [][ \A t \in GuardThreads :
          join(t) => (gpc'[t] = "inside" <=> GuardReaders # {}) ]_vars

\* C33: join() returns true, and the caller is a reader, exactly when at the
\* call _x is 1 or more: the guard is not locked and is open or has a caller
\* counted in it, a reader or one just refused. It fails on a closed guard
\* with nobody counted and on a locked guard; a join() that fails changes
\* no reader, and its leave() puts _x back.
C33_Join ==
    [][ \A t \in GuardThreads :
          join(t) =>
            /\ gpc'[t] = "inside"
                  <=> (~is_locked(x) /\ (is_open(x) \/ Counted # {}))
            /\ gpc'[t] # "inside"
                  => /\ gpc'[t] = "undo"
                     /\ fetch_sub(x') = x
                     /\ \A u \in GuardThreads \ {t} : gpc'[u] = gpc[u] ]_vars

\* a join() made a reader of its caller on a closed guard where the only
\* other caller had just been refused
C33_Witness ==
    \E t, u \in GuardThreads :
        /\ gpc[t] = "inside" /\ gop[t] = "join"
        /\ gpc[u] = "undo"
        /\ GuardReaders = {t}
        /\ ~is_open(x)

\* C34: try_lock() returns true exactly when, at the call, the guard is
\* closed, is not locked and has no reader inside; so it succeeds on a
\* closed guard without readers whatever visit(), join() or enter() of
\* other threads is being refused at the time.
C34_TryLock ==
    [][ \A t \in GuardThreads :
          try_lock(t) =>
            (gpc'[t] = "locked"
               <=> (~is_open(x) /\ ~is_locked(x) /\ GuardReaders = {})) ]_vars

(***************************************************************************)
(* unmanaged::slot<T>: lock(), expired() / empty(), try_emplace(), and the *)
(* shared_ptr / weak_ptr control block of the T it holds.                  *)
(***************************************************************************)
\* an expired() that only looks for a missing control block
weak_expired_unset(s) == weak[s] = NoObj

\* _weak_t.expired(): no control block, or a strong count of zero
weak_expired(s) == weak[s] = NoObj \/ uses[weak[s]] = 0

\* _weak_t.lock(): the object, when its strong count is not zero
weak_lock_unchecked(s) == weak[s]

weak_lock(s) == IF weak_expired(s) THEN NoObj ELSE weak[s]

\* the check made under the lock in try_emplace: if (_weak_t.expired())
emplace_unchecked(s) == TRUE

emplace_vacant(s) == weak[s] = NoObj \/ uses[weak[s]] = 0

Goto(t, label) == pc' = [pc EXCEPT ![t] = label]

\* a shared_ptr to o is released; at zero its deleter starts on the caller,
\* who goes on at label next once the object is gone
ReleaseTo(t, o, next, dying) ==
    /\ uses' = [uses EXCEPT ![o] = @ - 1]
    /\ IF uses[o] = 1
         THEN /\ life' = [life EXCEPT ![o] = "destroying"]
              /\ tref' = [tref EXCEPT ![t] = o]
              /\ Goto(t, dying)
         ELSE /\ tref' = [tref EXCEPT ![t] = NoObj]
              /\ Goto(t, next)
              /\ UNCHANGED life

Release(t, o) == ReleaseTo(t, o, "idle", "destroying")

\* deleter::operator(): t->~T() has run to its end
deleter(t) ==
    /\ pc[t] \in {"destroying", "pub_destroying"}
    /\ life' = [life EXCEPT ![tref[t]] = "dead"]
    /\ tref' = [tref EXCEPT ![t] = NoObj]
    /\ Goto(t, IF pc[t] = "destroying" THEN "idle" ELSE "pub_next")
    /\ UNCHANGED <<nonSlotVars, pass, weak, uses, nextObj, tslot, tflag, held>>

\* _pass.enter() inside expired() / lock(): the fetch_add and its test
PassEnter(t, s, inLabel, undoLabel) ==
    /\ pass' = [pass EXCEPT ![s] = fetch_add(@)]
    /\ Goto(t, IF enter_ok(pass[s]) THEN inLabel ELSE undoLabel)

\* serve(): try_emplace_service -> slot::try_emplace, which starts with
\* empty() -> expired() -> _pass.enter()
serve(t) ==
    /\ pc[t] = "idle"
    /\ held[t] = NoObj
    /\ tslot' = [tslot EXCEPT ![t] = ServiceSlot]
    /\ PassEnter(t, ServiceSlot, "te_read", "te_undo")
    /\ UNCHANGED <<nonSlotVars, weak, uses, life, nextObj, tref, tflag, held>>

\* expired(): r = _weak_t.expired() inside the guard
expired_read(t) ==
    /\ pc[t] = "te_read"
    /\ tflag' = [tflag EXCEPT ![t] = weak_expired(tslot[t])]
    /\ Goto(t, "te_leave")
    /\ UNCHANGED <<nonSlotVars, pass, weak, uses, life, nextObj, tslot, tref, held>>

\* expired(): _pass.leave(), after the read or after a refused enter() (r = 1);
\* try_emplace goes on to try_lock() when empty() was true
expired_leave(t) ==
    /\ pc[t] \in {"te_leave", "te_undo"}
    /\ pass' = [pass EXCEPT ![tslot[t]] = fetch_sub(@)]
    /\ IF pc[t] = "te_undo" \/ tflag[t]
         THEN Goto(t, "te_try_lock")
         ELSE Goto(t, "te_ret")
    /\ tref' = [tref EXCEPT ![t] = NoObj]
    /\ tflag' = [tflag EXCEPT ![t] = FALSE]
    /\ UNCHANGED <<nonSlotVars, weak, uses, life, nextObj, tslot, held>>

\* try_emplace: if (_pass.try_lock())
emplace_try_lock(t) ==
    /\ pc[t] = "te_try_lock"
    /\ IF try_lock_ok(pass[tslot[t]])
         THEN /\ pass' = [pass EXCEPT ![tslot[t]] = flag_locked]
              /\ Goto(t, "te_locked")
         ELSE /\ Goto(t, "te_ret")
              /\ UNCHANGED pass
    /\ UNCHANGED <<nonSlotVars, weak, uses, life, nextObj, tslot, tref, tflag, held>>

\* try_emplace, under the lock: if (_weak_t.expired()) _weak_t = new_t = ...
emplace_construct(t) ==
    /\ pc[t] = "te_locked"
    /\ IF emplace_vacant(tslot[t])
         THEN /\ nextObj <= MaxObj
              /\ weak' = [weak EXCEPT ![tslot[t]] = nextObj]
              /\ uses' = [uses EXCEPT ![nextObj] = 1]
              /\ life' = [life EXCEPT ![nextObj] = "alive"]
              /\ tref' = [tref EXCEPT ![t] = nextObj]
              /\ nextObj' = nextObj + 1
         ELSE UNCHANGED <<weak, uses, life, tref, nextObj>>
    /\ Goto(t, "te_unlock")
    /\ UNCHANGED <<nonSlotVars, pass, tslot, tflag, held>>

\* try_emplace: _pass.unlock()
emplace_unlock(t) ==
    /\ pc[t] = "te_unlock"
    /\ pass' = [pass EXCEPT ![tslot[t]] = fetch_and_not_locked(@)]
    /\ Goto(t, "te_ret")
    /\ UNCHANGED <<nonSlotVars, weak, uses, life, nextObj, tslot, tref, tflag, held>>

\* serve() returns new_t to its caller, who keeps it
serve_return(t) ==
    /\ pc[t] = "te_ret"
    /\ tslot[t] = ServiceSlot
    /\ held' = [held EXCEPT ![t] = tref[t]]
    /\ tref' = [tref EXCEPT ![t] = NoObj]
    /\ Goto(t, "idle")
    /\ UNCHANGED <<nonSlotVars, pass, weak, uses, life, nextObj, tslot, tflag>>

\* the holder of a service handle drops it
drop(t) ==
    /\ pc[t] = "idle"
    /\ held[t] # NoObj
    /\ held' = [held EXCEPT ![t] = NoObj]
    /\ Release(t, held[t])
    /\ UNCHANGED <<nonSlotVars, pass, weak, nextObj, tslot, tflag>>

\* service_lock() -> slot::lock(): _pass.enter()
service_lock(t) ==
    /\ pc[t] = "idle"
    /\ tslot' = [tslot EXCEPT ![t] = ServiceSlot]
    /\ PassEnter(t, ServiceSlot, "lk_weak", "lk_undo")
    /\ UNCHANGED <<nonSlotVars, weak, uses, life, nextObj, tref, tflag, held>>

\* slot::lock(): r = _weak_t.lock() inside the guard
lock_read(t) ==
    /\ pc[t] = "lk_weak"
    /\ LET o == weak_lock(tslot[t]) IN
         /\ tref' = [tref EXCEPT ![t] = o]
         /\ uses' = IF o = NoObj THEN uses ELSE [uses EXCEPT ![o] = @ + 1]
    /\ Goto(t, "lk_leave")
    /\ UNCHANGED <<nonSlotVars, pass, weak, life, nextObj, tslot, tflag, held>>

\* slot::lock(): _pass.leave(), after the read or after a refused enter()
lock_leave(t) ==
    /\ pc[t] \in {"lk_leave", "lk_undo"}
    /\ pass' = [pass EXCEPT ![tslot[t]] = fetch_sub(@)]
    /\ Goto(t, "lk_ret")
    /\ UNCHANGED <<nonSlotVars, weak, uses, life, nextObj, tslot, tref, tflag, held>>

\* issue(): if (auto svc = node->service_lock()) ... svc->func(msg)
dispatch(t) ==
    /\ pc[t] = "lk_ret"
    /\ tslot[t] = ServiceSlot
    /\ Goto(t, IF tref[t] = NoObj THEN "idle" ELSE "invoke")
    /\ UNCHANGED <<nonSlotVars, pass, weak, uses, life, nextObj, tslot, tref, tflag, held>>

\* the service function returns and issue() lets go of svc
handler_return(t) ==
    /\ pc[t] = "invoke"
    /\ Release(t, tref[t])
    /\ UNCHANGED <<nonSlotVars, pass, weak, nextObj, tslot, tflag, held>>

SlotNext ==
    \E t \in Threads :
        \/ serve(t)
        \/ expired_read(t)
        \/ expired_leave(t)
        \/ emplace_try_lock(t)
        \/ emplace_construct(t)
        \/ emplace_unlock(t)
        \/ serve_return(t)
        \/ drop(t)
        \/ deleter(t)
        \/ service_lock(t)
        \/ lock_read(t)
        \/ lock_leave(t)
        \/ dispatch(t)
        \/ handler_return(t)

\* slot() : _pass(false): every slot starts closed and empty
SlotInit ==
    /\ x = 0
    /\ gpc = [t \in GuardThreads |-> "idle"]
    /\ pass = [s \in Slots |-> 0]
    /\ weak = [s \in Slots |-> NoObj]
    /\ uses = [o \in Objs |-> 0]
    /\ life = [o \in Objs |-> "unborn"]
    /\ nextObj = 1
    /\ pc = [t \in Threads |-> "idle"]
    /\ tslot = [t \in Threads |-> ServiceSlot]
    /\ tref = [t \in Threads |-> NoObj]
    /\ tflag = [t \in Threads |-> FALSE]
    /\ held = [t \in Threads |-> NoObj]
    /\ _map = [k \in Keys |-> Absent]
    /\ _mtx = [shared |-> {}, unique |-> {}]
    /\ nuses = [n \in Nodes |-> 0]
    /\ nkey = [n \in Nodes |-> 0]
    /\ nextNode = 1
    /\ kpc = [t \in TableThreads |-> "idle"]
    /\ kkey = [t \in TableThreads |-> 1]
    /\ knode = [t \in TableThreads |-> NoNode]
    /\ chain = 1
    /\ pubHeld = {}
    /\ pubSeen = [o \in Objs |-> 0]
    /\ services = [n \in TopicNodes |-> NoService]
    /\ request = NoRequest
    /\ issued = NoIssue
    /\ subscribers = << >>
    /\ event = NoEvent
    /\ published = NoPublish
    /\ relayed = NoRelay
    /\ converted = NoConverted
    /\ trie = NoTrie
    /\ searched = NoSearched
    /\ id_counter = 1
    /\ ids = [t \in Threads |-> << >>]
    /\ promise = [c \in Clients |-> NoPromise]
    /\ responded = NoResponded
    /\ view = NoView
    /\ bound = NoBound
    /\ visited = NoVisited
    /\ cascade = NoCascade
    /\ gop = [t \in GuardThreads |-> "none"]
    /\ auto = NoAuto
    /\ nservice = [n \in Nodes |-> FALSE]

SpecSlot == SlotInit /\ [][SlotNext]_vars

LiveObjs == {o \in Objs : uses[o] > 0}

\* the objects some thread holds a handle to that serve() returned
HeldObjs == {held[t] : t \in Threads} \ {NoObj}

\* C1: the service slot never holds two live services, and of the serve()
\* calls racing on the node at most one has a non-null result.
C1_OneService ==
    /\ Cardinality(LiveObjs) <= 1
    /\ Cardinality({t \in Threads : held[t] # NoObj
                        \/ (pc[t] \in {"te_unlock", "te_ret"} /\ tref[t] # NoObj)}) <= 1

\* one serve() holds its service while a racing serve() is returning null
C1_Witness ==
    \E t, u \in Threads :
        /\ held[t] # NoObj
        /\ pc[u] = "te_ret" /\ tref[u] = NoObj

\* the step at which a service_lock() call settles its result: the refused
\* enter(), or _weak_t.lock() inside the guard
LookupSettles(t) ==
    \/ pc[t] = "idle" /\ pc'[t] = "lk_undo"
    \/ pc[t] = "lk_weak" /\ pc'[t] = "lk_leave"

\* C2: while a handle serve() returned is held, every service_lock() yields
\* that service; once no reference to it is left, service_lock() yields null.
C2_LookupReturnsHeld ==
    [][ \A t \in Threads : LookupSettles(t) =>
            /\ \A o \in HeldObjs : tref'[t] = o
            /\ (LiveObjs = {} => tref'[t] = NoObj) ]_vars

ReadersInside(s) ==
    {u \in Threads :
        tslot[u] = s /\ pc[u] \in {"te_read", "te_leave", "lk_weak", "lk_leave"}}

\* C13: try_emplace constructs, and so returns a reference, only at a moment
\* when its slot holds no live T and no reader is inside the slot's guard;
\* on an occupied slot no step of it yields a reference or touches the T
\* there and the references to it.
C13_TryEmplaceExclusive ==
    [][ \A t \in Threads :
          /\ (pc[t] = "te_locked" /\ tref'[t] # NoObj) =>
                /\ weak[tslot[t]] \notin LiveObjs
                /\ ReadersInside(tslot[t]) = {}
          /\ ( /\ pc[t] \in {"te_read", "te_undo", "te_leave",
                              "te_try_lock", "te_locked"}
               /\ pc'[t] # pc[t]
               /\ weak[tslot[t]] \in LiveObjs ) =>
                /\ tref'[t] = NoObj
                /\ weak' = weak /\ uses' = uses /\ life' = life ]_vars

\* one try_emplace is returning the service it made while another, which
\* took the lock on the slot after it, comes away with nothing
C13_Witness ==
    \E t, u \in Threads :
        /\ pc[t] = "te_ret" /\ tref[t] # NoObj
        /\ pc[u] = "te_unlock" /\ tref[u] = NoObj

C38_NoOverlap ==
    \A o \in Objs : \A n \in Objs :
        (o < n /\ life[o] = "destroying") => life[n] = "unborn"

(***************************************************************************)
(* unmanaged::pool<subscription>: emplace() behind subscribe(), and the    *)
(* pool iterator behind publish(), on the subscriber pool of one node.     *)
(***************************************************************************)
\* the threads inside pool::emplace that have not constructed their object
Emplacing ==
    {u \in Threads :
        /\ tslot[u] \in PoolSlots
        /\ tref[u] = NoObj
        /\ pc[u] \in {"te_read", "te_undo", "te_leave", "te_try_lock",
                      "te_locked", "te_unlock", "te_ret", "em_enter"}}

Publishing ==
    {u \in Threads :
        \/ pc[u] \in {"pub_invoke", "pub_next", "pub_destroying", "pub_end"}
        \/ pc[u] \in {"lk_weak", "lk_undo", "lk_leave", "lk_ret"}
             /\ tslot[u] \in PoolSlots}

\* subscribe() -> emplace_subscriber -> pool::emplace: try_emplace on the
\* first slot of _first
subscribe(t) ==
    /\ pc[t] = "idle"
    /\ held[t] = NoObj
    /\ nextObj + Cardinality(Emplacing) <= MaxObj
    /\ tslot' = [tslot EXCEPT ![t] = slot_begin(1)]
    /\ PassEnter(t, slot_begin(1), "te_read", "te_undo")
    /\ UNCHANGED <<nonSlotVars, weak, uses, life, nextObj, tref, tflag, held>>

\* pool::emplace: if (auto ptr = i->try_emplace(...)) return ptr;
emplace_return(t) ==
    /\ pc[t] = "te_ret"
    /\ tslot[t] \in PoolSlots
    /\ tref[t] # NoObj
    /\ held' = [held EXCEPT ![t] = tref[t]]
    /\ tref' = [tref EXCEPT ![t] = NoObj]
    /\ tslot' = [tslot EXCEPT ![t] = ServiceSlot]
    /\ Goto(t, "idle")
    /\ UNCHANGED <<nonSlotVars, pass, weak, uses, life, nextObj, tflag>>

\* pool::emplace: ++i inside one buffer, and try_emplace on that slot
emplace_advance(t) ==
    /\ pc[t] = "te_ret"
    /\ tslot[t] \in PoolSlots
    /\ tref[t] = NoObj
    /\ tslot[t] + 1 < slot_end(BufOf(tslot[t]))
    /\ tslot' = [tslot EXCEPT ![t] = @ + 1]
    /\ PassEnter(t, tslot[t] + 1, "te_read", "te_undo")
    /\ UNCHANGED <<nonSlotVars, weak, uses, life, nextObj, tref, tflag, held>>

\* pool::emplace at the end of a buffer: buf = buf->more(), which returns
\* _next or links a new buffer with compare_exchange_strong
more(t) ==
    /\ pc[t] = "te_ret"
    /\ tslot[t] \in PoolSlots
    /\ tref[t] = NoObj
    /\ tslot[t] + 1 = slot_end(BufOf(tslot[t]))
    /\ BufOf(tslot[t]) < MaxBuffers
    /\ chain' = IF chain > BufOf(tslot[t]) THEN chain ELSE BufOf(tslot[t]) + 1
    /\ tslot' = [tslot EXCEPT ![t] = @ + 1]
    /\ Goto(t, "em_enter")
    /\ UNCHANGED <<nonPoolVars, pubHeld, pubSeen>>
    /\ UNCHANGED <<pass, weak, uses, life, nextObj, tref, tflag, held>>

\* pool::emplace at the end of the last buffer the memory has room for:
\* more() -> _alloc -> new char[...] raises std::bad_alloc
bad_alloc(t) ==
    /\ pc[t] = "te_ret"
    /\ tslot[t] \in PoolSlots
    /\ tref[t] = NoObj
    /\ tslot[t] + 1 = slot_end(BufOf(tslot[t]))
    /\ BufOf(tslot[t]) = MaxBuffers
    /\ Goto(t, "em_throw")
    /\ UNCHANGED <<nonSlotVars, pass, weak, uses, life, nextObj, tslot, tref, tflag, held>>

\* std::bad_alloc leaves pool::emplace and subscribe(): no subscription
emplace_throw(t) ==
    /\ pc[t] = "em_throw"
    /\ tslot' = [tslot EXCEPT ![t] = ServiceSlot]
    /\ Goto(t, "idle")
    /\ UNCHANGED <<nonSlotVars, pass, weak, uses, life, nextObj, tref, tflag, held>>

\* pool::emplace: try_emplace on the first slot of the next buffer
emplace_enter(t) ==
    /\ pc[t] = "em_enter"
    /\ PassEnter(t, tslot[t], "te_read", "te_undo")
    /\ UNCHANGED <<nonSlotVars, weak, uses, life, nextObj, tslot, tref, tflag, held>>

\* publish(): for (subscription &sub : node->subscribers()) begins with
\* pool::iterator(pool), whose advance() locks the first slot
publish(t) ==
    /\ pc[t] = "idle"
    /\ Publishing = {}
    /\ pubHeld' = {held[u] : u \in Threads} \ {NoObj}
    /\ pubSeen' = [o \in Objs |-> 0]
    /\ tslot' = [tslot EXCEPT ![t] = slot_begin(1)]
    /\ PassEnter(t, slot_begin(1), "lk_weak", "lk_undo")
    /\ UNCHANGED <<nonPoolVars, chain>>
    /\ UNCHANGED <<weak, uses, life, nextObj, tref, tflag, held>>

\* iterator::advance() returned true: if (sub.accepts(filtering)) sub.func(msg)
subscriber_call(t) ==
    /\ pc[t] = "lk_ret"
    /\ tslot[t] \in PoolSlots
    /\ tref[t] # NoObj
    /\ pubSeen' = [pubSeen EXCEPT ![tref[t]] = IF @ < 2 THEN @ + 1 ELSE @]
    /\ Goto(t, "pub_invoke")
    /\ UNCHANGED <<nonPoolVars, chain, pubHeld>>
    /\ UNCHANGED <<pass, weak, uses, life, nextObj, tslot, tref, tflag, held>>

\* sub.func returns; operator++ lets go of the element: _element = nullptr
subscriber_return(t) ==
    /\ pc[t] = "pub_invoke"
    /\ ReleaseTo(t, tref[t], "pub_next", "pub_destroying")
    /\ UNCHANGED <<nonSlotVars, pass, weak, nextObj, tslot, tflag, held>>

\* iterator::advance(): the slot held nothing, or the element was let go of:
\* ++_slot, at the end of a buffer _buff = _buff->_next, then _slot->lock()
advance(t) ==
    /\ \/ pc[t] = "lk_ret" /\ tslot[t] \in PoolSlots /\ tref[t] = NoObj
       \/ pc[t] = "pub_next"
    /\ IF \/ tslot[t] + 1 < slot_end(BufOf(tslot[t]))
          \/ BufOf(tslot[t]) < chain
         THEN /\ tslot' = [tslot EXCEPT ![t] = @ + 1]
              /\ PassEnter(t, tslot[t] + 1, "lk_weak", "lk_undo")
         ELSE /\ Goto(t, "pub_end")
              /\ UNCHANGED <<pass, tslot>>
    /\ UNCHANGED <<nonSlotVars, weak, uses, life, nextObj, tref, tflag, held>>

\* the iterator reached end(): publish() returns
publish_return(t) ==
    /\ pc[t] = "pub_end"
    /\ pubHeld' = {}
    /\ pubSeen' = [o \in Objs |-> 0]
    /\ tslot' = [tslot EXCEPT ![t] = ServiceSlot]
    /\ Goto(t, "idle")
    /\ UNCHANGED <<nonPoolVars, chain>>
    /\ UNCHANGED <<pass, weak, uses, life, nextObj, tref, tflag, held>>

PoolNext ==
    \E t \in Threads :
        \/ subscribe(t)
        \/ expired_read(t)
        \/ expired_leave(t)
        \/ emplace_try_lock(t)
        \/ emplace_construct(t)
        \/ emplace_unlock(t)
        \/ emplace_return(t)
        \/ emplace_advance(t)
        \/ more(t)
        \/ bad_alloc(t)
        \/ emplace_throw(t)
        \/ emplace_enter(t)
        \/ drop(t)
        \/ deleter(t)
        \/ publish(t)
        \/ lock_read(t)
        \/ lock_leave(t)
        \/ subscriber_call(t)
        \/ subscriber_return(t)
        \/ advance(t)
        \/ publish_return(t)

\* pool(): one buffer of closed, empty slots
PoolInit ==
    /\ x = 0
    /\ gpc = [t \in GuardThreads |-> "idle"]
    /\ pass = [s \in Slots |-> 0]
    /\ weak = [s \in Slots |-> NoObj]
    /\ uses = [o \in Objs |-> 0]
    /\ life = [o \in Objs |-> "unborn"]
    /\ nextObj = 1
    /\ pc = [t \in Threads |-> "idle"]
    /\ tslot = [t \in Threads |-> ServiceSlot]
    /\ tref = [t \in Threads |-> NoObj]
    /\ tflag = [t \in Threads |-> FALSE]
    /\ held = [t \in Threads |-> NoObj]
    /\ _map = [k \in Keys |-> Absent]
    /\ _mtx = [shared |-> {}, unique |-> {}]
    /\ nuses = [n \in Nodes |-> 0]
    /\ nkey = [n \in Nodes |-> 0]
    /\ nextNode = 1
    /\ kpc = [t \in TableThreads |-> "idle"]
    /\ kkey = [t \in TableThreads |-> 1]
    /\ knode = [t \in TableThreads |-> NoNode]
    /\ chain = 1
    /\ pubHeld = {}
    /\ pubSeen = [o \in Objs |-> 0]
    /\ services = [n \in TopicNodes |-> NoService]
    /\ request = NoRequest
    /\ issued = NoIssue
    /\ subscribers = << >>
    /\ event = NoEvent
    /\ published = NoPublish
    /\ relayed = NoRelay
    /\ converted = NoConverted
    /\ trie = NoTrie
    /\ searched = NoSearched
    /\ id_counter = 1
    /\ ids = [t \in Threads |-> << >>]
    /\ promise = [c \in Clients |-> NoPromise]
    /\ responded = NoResponded
    /\ view = NoView
    /\ bound = NoBound
    /\ visited = NoVisited
    /\ cascade = NoCascade
    /\ gop = [t \in GuardThreads |-> "none"]
    /\ auto = NoAuto
    /\ nservice = [n \in Nodes |-> FALSE]

SpecPool == PoolInit /\ [][PoolNext]_vars

\* C5: a subscription whose handle subscribe() had returned before publish()
\* began, and which is still held when publish() returns, was invoked exactly
\* once by that publish(), whatever subscribe() calls ran beside it.
C5_SubscriberInvokedOnce ==
    \A t \in Threads :
        pc[t] = "pub_end" => \A o \in pubHeld \cap HeldObjs : pubSeen[o] = 1

\* C35: an iteration over the pool from begin() to end() yields once every
\* element whose handle is held from before it starts until after it ends,
\* and yields no element twice, whatever emplace() calls and drops of
\* handles run beside it.
C35_Iteration ==
    \A t \in Threads :
        pc[t] = "pub_end"
            => /\ \A o \in Objs : pubSeen[o] <= 1
               /\ \A o \in Objs : (o \in pubHeld /\ o \in HeldObjs) => pubSeen[o] >= 1

\* C12: pool::emplace always returns a reference: no emplace() runs off the
\* end of the chain, to be ended by the allocator, while a slot of the pool
\* is empty, whatever emplace(), iteration and drops run beside it.
C12_EmplaceReturns ==
    \A t \in Threads :
        pc[t] = "em_throw" => \A s \in PoolSlots : ~weak_expired(s)

(***************************************************************************)
(* locking_weak_table: the child table of one trie node, with its          *)
(* std::shared_mutex, and the child nodes its weak_ptrs refer to.          *)
(***************************************************************************)
KGoto(t, label) == kpc' = [kpc EXCEPT ![t] = label]

\* shared_lock lock(_mtx): granted while nobody holds the mutex uniquely
shared_lock(t) ==
    /\ _mtx.unique = {}
    /\ _mtx' = [_mtx EXCEPT !.shared = @ \cup {t}]

\* unique_lock lock(_mtx): granted while nobody holds the mutex at all
unique_lock(t) ==
    /\ _mtx.unique = {} /\ _mtx.shared = {}
    /\ _mtx' = [_mtx EXCEPT !.unique = {t}]

\* pos->second.lock(): the node of the entry, when it is still alive
entry_lock(k) ==
    IF _map[k] \in Nodes /\ nuses[_map[k]] > 0 THEN _map[k] ELSE NoNode

\* trie_::get_child(id) -> find_or_create: the first block takes the shared lock
get_child(t, k) ==
    /\ kpc[t] = "idle"
    /\ knode[t] = NoNode
    /\ shared_lock(t)
    /\ kkey' = [kkey EXCEPT ![t] = k]
    /\ KGoto(t, "foc_find")
    /\ UNCHANGED <<nonTableVars, _map, nuses, nkey, nextNode, knode>>

\* trie_::try_child(id) -> locking_weak_table::find takes the shared lock
try_child(t, k) ==
    /\ kpc[t] = "idle"
    /\ knode[t] = NoNode
    /\ shared_lock(t)
    /\ kkey' = [kkey EXCEPT ![t] = k]
    /\ KGoto(t, "find_find")
    /\ UNCHANGED <<nonTableVars, _map, nuses, nkey, nextNode, knode>>

\* under the shared lock: pos = _find(key); result = pos->second.lock()
table_find(t) ==
    /\ kpc[t] \in {"foc_find", "find_find"}
    /\ LET n == entry_lock(kkey[t]) IN
         /\ knode' = [knode EXCEPT ![t] = n]
         /\ nuses' = IF n = NoNode THEN nuses ELSE [nuses EXCEPT ![n] = @ + 1]
    /\ KGoto(t, IF kpc[t] = "foc_find" THEN "foc_unshare" ELSE "find_unshare")
    /\ UNCHANGED <<nonTableVars, _map, _mtx, nkey, nextNode, kkey>>

\* the shared lock is released: find returns, find_or_create returns a live
\* result and otherwise goes on to its second block
table_unshare(t) ==
    /\ kpc[t] \in {"foc_unshare", "find_unshare"}
    /\ _mtx' = [_mtx EXCEPT !.shared = @ \ {t}]
    /\ KGoto(t, IF kpc[t] = "foc_unshare" /\ knode[t] = NoNode
                  THEN "foc_unique" ELSE "idle")
    /\ UNCHANGED <<nonTableVars, _map, nuses, nkey, nextNode, kkey, knode>>

\* find_or_create, second block: unique_lock lock(_mtx)
foc_unique(t) ==
    /\ kpc[t] = "foc_unique"
    /\ unique_lock(t)
    /\ KGoto(t, "foc_make")
    /\ UNCHANGED <<nonTableVars, _map, nuses, nkey, nextNode, kkey, knode>>

\* find_or_create, under the unique lock: make = make_shared<...>(...);
\* ins = _map.emplace(key, make); if (!ins.second) ins.first->second = make
foc_make(t) ==
    /\ kpc[t] = "foc_make"
    /\ nextNode <= MaxNode
    /\ nuses' = [nuses EXCEPT ![nextNode] = 1]
    /\ nkey' = [nkey EXCEPT ![nextNode] = kkey[t]]
    /\ _map' = [_map EXCEPT ![kkey[t]] = nextNode]
    /\ knode' = [knode EXCEPT ![t] = nextNode]
    /\ nextNode' = nextNode + 1
    /\ KGoto(t, "foc_unlock")
    /\ UNCHANGED <<nonTableVars, _mtx, kkey>>

\* find_or_create: return make, releasing the unique lock
foc_unlock(t) ==
    /\ kpc[t] = "foc_unlock"
    /\ _mtx' = [_mtx EXCEPT !.unique = {}]
    /\ KGoto(t, "idle")
    /\ UNCHANGED <<nonTableVars, _map, nuses, nkey, nextNode, kkey, knode>>

\* the caller lets go of the node it was given; the table's weak_ptr remains
node_drop(t) ==
    /\ kpc[t] = "idle"
    /\ knode[t] # NoNode
    /\ nuses' = [nuses EXCEPT ![knode[t]] = @ - 1]
    /\ knode' = [knode EXCEPT ![t] = NoNode]
    /\ UNCHANGED <<nonTableVars, _map, _mtx, nkey, nextNode, kpc, kkey>>

TableNext ==
    \E t \in TableThreads :
        \/ \E k \in Keys : get_child(t, k)
        \/ \E k \in Keys : try_child(t, k)
        \/ table_find(t)
        \/ table_unshare(t)
        \/ foc_unique(t)
        \/ foc_make(t)
        \/ foc_unlock(t)
        \/ node_drop(t)

\* a parent node with an empty child table
TableInit ==
    /\ x = 0
    /\ gpc = [t \in GuardThreads |-> "idle"]
    /\ pass = [s \in Slots |-> 0]
    /\ weak = [s \in Slots |-> NoObj]
    /\ uses = [o \in Objs |-> 0]
    /\ life = [o \in Objs |-> "unborn"]
    /\ nextObj = 1
    /\ pc = [t \in Threads |-> "idle"]
    /\ tslot = [t \in Threads |-> ServiceSlot]
    /\ tref = [t \in Threads |-> NoObj]
    /\ tflag = [t \in Threads |-> FALSE]
    /\ held = [t \in Threads |-> NoObj]
    /\ _map = [k \in Keys |-> Absent]
    /\ _mtx = [shared |-> {}, unique |-> {}]
    /\ nuses = [n \in Nodes |-> 0]
    /\ nkey = [n \in Nodes |-> 0]
    /\ nextNode = 1
    /\ kpc = [t \in TableThreads |-> "idle"]
    /\ kkey = [t \in TableThreads |-> 1]
    /\ knode = [t \in TableThreads |-> NoNode]
    /\ chain = 1
    /\ pubHeld = {}
    /\ pubSeen = [o \in Objs |-> 0]
    /\ services = [n \in TopicNodes |-> NoService]
    /\ request = NoRequest
    /\ issued = NoIssue
    /\ subscribers = << >>
    /\ event = NoEvent
    /\ published = NoPublish
    /\ relayed = NoRelay
    /\ converted = NoConverted
    /\ trie = NoTrie
    /\ searched = NoSearched
    /\ id_counter = 1
    /\ ids = [t \in Threads |-> << >>]
    /\ promise = [c \in Clients |-> NoPromise]
    /\ responded = NoResponded
    /\ view = NoView
    /\ bound = NoBound
    /\ visited = NoVisited
    /\ cascade = NoCascade
    /\ gop = [t \in GuardThreads |-> "none"]
    /\ auto = NoAuto
    /\ nservice = [n \in Nodes |-> FALSE]

SpecTable == TableInit /\ [][TableNext]_vars

LiveChildren(k) == {n \in Nodes : nuses[n] > 0 /\ nkey[n] = k}

\* C4: get_child(id) returns the live child for id or creates one, so the
\* results of get_child(id) calls that are held at the same time are one
\* node, and a parent never has two live children with the same id.
C4_OneChildPerId ==
    /\ \A k \in Keys : Cardinality(LiveChildren(k)) <= 1
    /\ \A t, u \in TableThreads :
          (/\ kpc[t] = "idle" /\ kpc[u] = "idle"
           /\ knode[t] # NoNode /\ knode[u] # NoNode
           /\ nkey[knode[t]] = nkey[knode[u]]) => knode[t] = knode[u]

(***************************************************************************)
(* issue(): the choice of a service for a request and the delivery of a    *)
(* response, by topic_::issue and by resource::issue, one call at a time.  *)
(***************************************************************************)
\* receiver::accepts: !(message_filtering & ignored)
accepts_any(ignored, message_filtering) == TRUE

accepts(ignored, message_filtering) == message_filtering \cap ignored = {}

\* the ignore masks services are installed with
ServiceMasks == {default_service_ignore, default_receiver_ignore, {}}

\* what a service function may do with the request it is called with
ServiceDoes ==
    {"return", "respond", "throw_status", "throw_status_exception", "throw_other"}

\* and what a service function may do that responds more than once
ServiceDoesMore ==
    ServiceDoes \cup {"respond_twice", "respond_throw_status"}

\* msg.features &= ~flags::did_respond left out
unresponded_kept(features) == features

\* msg.features &= ~flags::did_respond
unresponded(features) == features \ {"did_respond"}

\* request::respond: features |= did_respond; if (_client) _client->respond(...)
respond(m, status) ==
    [m EXCEPT !.features = @ \cup {"did_respond"},
              !.responses = IF m._client THEN Append(@, status) ELSE @]

\* svc->func(msg), for a service function that does as said
func(m, does) ==
    CASE does \in {"respond", "respond_throw_status"} -> respond(m, "OK")
      [] does = "respond_twice" -> respond(respond(m, "OK"), "OK")
      [] OTHER -> m

\* the label service_found / the body of if (svc->accepts(filtering)):
\* try {svc->func(msg);} catch (status s) {...} catch (status_exception &e) {...}
\* then the default response, then features |= did_send
service_found(m, node, does) ==
    LET called == func(m, does)
        caught == CASE does \in {"throw_status", "respond_throw_status"}
                         -> respond(called, "status")
                    [] does = "throw_status_exception" -> respond(called, "e.status")
                    [] OTHER -> called
        replied == IF "did_respond" \in caught.features
                     THEN caught ELSE respond(caught, "NoContent")
    IN  IF does = "throw_other"
          THEN [invoked |-> <<node>>, responses |-> called.responses,
                outcome |-> "exception", features |-> called.features]
          ELSE [invoked |-> <<node>>, responses |-> replied.responses,
                outcome |-> "returned",
                features |-> replied.features \cup {"did_send"}]

\* throw service_not_found("No service available", path())
service_not_found(m) ==
    [invoked |-> << >>, responses |-> m.responses,
     outcome |-> "service_not_found", features |-> m.features]

RECURSIVE issue_loop(_, _, _, _)

\* topic_::issue from the label start_resolved on: the service of node, and
\* on from node->parent()
issue_body(m, node, filtering, does) ==
    IF services[node].live /\ accepts(services[node].ignored, filtering)
      THEN service_found(m, node, does)
      ELSE issue_loop(m, parent(node), filtering, does)

\* topic_::issue: while (recursive && node) {filtering |= flags::recursive; ...}
issue_loop(m, node, filtering, does) ==
    IF "recursive" \in m.filtering /\ node # NullNode
      THEN issue_body(m, node, filtering \cup {"recursive"}, does)
      ELSE service_not_found(m)

\* topic_::issue(msg): an unresolved target starts at its nearest node
topic_issue(msg, does) ==
    LET m == [features |-> unresponded(msg.features), responses |-> << >>,
              _client |-> msg._client, filtering |-> msg.filtering]
    IN  IF msg.resolved
          THEN issue_body(m, msg.target, msg.filtering \ {"recursive"}, does)
          ELSE issue_loop(m, msg.target, msg.filtering \ {"recursive"}, does)

RECURSIVE resource_ancestors(_, _, _, _)

\* resource::issue: for (node = parent(); node; node = node->parent())
\*     if (svc = _trie::service_lock()) if (svc->accepts(...)) goto service_found;
\* where _trie::service_lock() is the service of the resource issue() is
\* called on, whichever ancestor node stands at
resource_ancestors(m, this, node, does) ==
    IF node = NullNode
      THEN service_not_found(m)
      ELSE IF /\ services[this].live
              /\ accepts(services[this].ignored, m.filtering \cup {"recursive"})
             THEN service_found(m, this, does)
             ELSE resource_ancestors(m, this, parent(node), does)

\* resource::issue(msg)
resource_issue(msg, does) ==
    LET m == [features |-> unresponded(msg.features), responses |-> << >>,
              _client |-> msg._client, filtering |-> msg.filtering]
        this == msg.target
    IN  IF /\ services[this].live
           /\ accepts(services[this].ignored, msg.filtering \ {"recursive"})
          THEN service_found(m, this, does)
          ELSE IF "recursive" \in msg.filtering
                 THEN resource_ancestors(m, this, parent(this), does)
                 ELSE service_not_found(m)

Issued(by, does, r) ==
    [by |-> by, does |-> does, invoked |-> r.invoked, responses |-> r.responses,
     outcome |-> r.outcome, before |-> request.features]

\* serve() on a node that has no service
Serve(n, ignored) ==
    /\ ~services[n].live
    /\ services' = [services EXCEPT ![n] = [live |-> TRUE, ignored |-> ignored]]
    /\ issued' = NoIssue
    /\ UNCHANGED <<nonIssueVars, request>>

\* the last handle of the service of node n is dropped
Unserve(n) ==
    /\ services[n].live
    /\ services' = [services EXCEPT ![n] = NoService]
    /\ issued' = NoIssue
    /\ UNCHANGED <<nonIssueVars, request>>

\* request(client, topic, method, value, flags): a request that was never sent
Request(target, resolved, filtering, client) ==
    /\ request' = [target |-> target, resolved |-> resolved,
                   filtering |-> filtering, features |-> {}, _client |-> client]
    /\ issued' = NoIssue
    /\ UNCHANGED <<nonIssueVars, services>>

\* the request is issued, for the first time or again, through a topic
IssueTopic(does) ==
    LET r == topic_issue(request, does) IN
      /\ request' = [request EXCEPT !.features = r.features]
      /\ issued' = Issued("topic_", does, r)
      /\ UNCHANGED <<nonIssueVars, services>>

\* the request is issued on a resource, which always exists
IssueResource(does) ==
    LET r == resource_issue(request, does) IN
      /\ request.resolved
      /\ request' = [request EXCEPT !.features = r.features]
      /\ issued' = Issued("resource", does, r)
      /\ UNCHANGED <<nonIssueVars, services>>

IssueNext ==
    \/ \E n \in TopicNodes, ignored \in ServiceMasks : Serve(n, ignored)
    \/ \E n \in TopicNodes : Unserve(n)
    \/ \E n \in TopicNodes, resolved, client \in BOOLEAN,
          filtering \in SUBSET {"recursive", "logging"} :
              Request(n, resolved, filtering, client)
    \/ \E does \in ServiceDoesMore : IssueTopic(does)
    \/ \E does \in ServiceDoesMore : IssueResource(does)

\* topic nodes without services
IssueInit ==
    /\ x = 0
    /\ gpc = [t \in GuardThreads |-> "idle"]
    /\ pass = [s \in Slots |-> 0]
    /\ weak = [s \in Slots |-> NoObj]
    /\ uses = [o \in Objs |-> 0]
    /\ life = [o \in Objs |-> "unborn"]
    /\ nextObj = 1
    /\ pc = [t \in Threads |-> "idle"]
    /\ tslot = [t \in Threads |-> ServiceSlot]
    /\ tref = [t \in Threads |-> NoObj]
    /\ tflag = [t \in Threads |-> FALSE]
    /\ held = [t \in Threads |-> NoObj]
    /\ _map = [k \in Keys |-> Absent]
    /\ _mtx = [shared |-> {}, unique |-> {}]
    /\ nuses = [n \in Nodes |-> 0]
    /\ nkey = [n \in Nodes |-> 0]
    /\ nextNode = 1
    /\ kpc = [t \in TableThreads |-> "idle"]
    /\ kkey = [t \in TableThreads |-> 1]
    /\ knode = [t \in TableThreads |-> NoNode]
    /\ chain = 1
    /\ pubHeld = {}
    /\ pubSeen = [o \in Objs |-> 0]
    /\ services = [n \in TopicNodes |-> NoService]
    /\ request = NoRequest
    /\ issued = NoIssue
    /\ subscribers = << >>
    /\ event = NoEvent
    /\ published = NoPublish
    /\ relayed = NoRelay
    /\ converted = NoConverted
    /\ trie = NoTrie
    /\ searched = NoSearched
    /\ id_counter = 1
    /\ ids = [t \in Threads |-> << >>]
    /\ promise = [c \in Clients |-> NoPromise]
    /\ responded = NoResponded
    /\ view = NoView
    /\ bound = NoBound
    /\ visited = NoVisited
    /\ cascade = NoCascade
    /\ gop = [t \in GuardThreads |-> "none"]
    /\ auto = NoAuto
    /\ nservice = [n \in Nodes |-> FALSE]


SpecIssue == IssueInit /\ [][IssueNext]_vars

\* the node holds a service whose ignore mask shares no bit with f
Accepting(n, f) == services[n].live /\ services[n].ignored \cap f = {}

\* the proper ancestors of the request's destination that exist
RequestAncestors ==
    IF request.resolved THEN 1..(request.target - 1) ELSE 1..request.target

AcceptingAncestors ==
    {a \in RequestAncestors : Accepting(a, request.filtering \cup {"recursive"})}

\* the node whose service the request is to be dispatched to, or NullNode
Selected ==
    IF request.resolved
         /\ Accepting(request.target, request.filtering \ {"recursive"})
      THEN request.target
      ELSE IF "recursive" \in request.filtering /\ AcceptingAncestors # {}
             THEN CHOOSE a \in AcceptingAncestors :
                      \A b \in AcceptingAncestors : b <= a
             ELSE NullNode

\* C7: whenever issue() invoked a service for a request with a client, the
\* client has been handed a response, whatever the service function did.
C7_AlwaysResponds ==
    (issued.by # "none" /\ issued.invoked # << >> /\ request._client)
        => issued.responses # << >>

\* C8: issue() invokes exactly the selected service: the destination's when
\* it accepts the filtering without the recursive bit, else for a recursive
\* request the nearest ancestor's that accepts it with the bit, else none.
C8_ServiceSelection ==
    issued.by # "none"
        => issued.invoked = IF Selected = NullNode THEN << >> ELSE <<Selected>>

\* C9: with no accepting service at the destination nor, for a recursive
\* request, at any ancestor, issue() raises service_not_found, invokes no
\* service, hands the client no response and does not set did_send.
C9_ServiceNotFound ==
    (issued.by # "none" /\ Selected = NullNode)
        => /\ issued.outcome = "service_not_found"
           /\ issued.invoked = << >>
           /\ issued.responses = << >>
           /\ request.features = issued.before \ {"did_respond"}

\* a recursive request passed a service that ignores it and was not found
C9_Witness ==
    /\ issued.by = "topic_"
    /\ issued.outcome = "service_not_found"
    /\ "recursive" \in request.filtering
    /\ request._client
    /\ request.features = {}
    /\ \E n \in TopicNodes : services[n].live

\* C28: in one issuance of a request the response function of its client is
\* called at most once, whatever calls of respond() and thrown statuses
\* the service function makes.
C28_OneResponse ==
    issued.by # "none" => Len(issued.responses) <= 1

\* C29: issue() clears did_respond before it invokes the service; a status
\* or status_exception the service throws is handed to the client as the
\* response; a service that returns without responding gets NoContent sent
\* for it; issue() sets did_send exactly when it invoked a service and
\* returns normally. Issuing the request again does the same, whatever the
\* earlier issuance left in did_respond.
C29_IssueResponds ==
    issued.by # "none" =>
        /\ (issued.invoked # << >> /\ request._client) =>
              /\ issued.does = "return" => issued.responses = <<"NoContent">>
              /\ issued.does = "respond" => issued.responses = <<"OK">>
              /\ issued.does = "throw_status" => issued.responses = <<"status">>
              /\ issued.does = "throw_status_exception"
                    => issued.responses = <<"e.status">>
        /\ issued.outcome = "returned" => "did_respond" \in request.features
        /\ issued.does = "throw_other" => "did_respond" \notin request.features
        /\ "did_send" \in request.features
              <=> \/ "did_send" \in issued.before
                  \/ issued.invoked # << >> /\ issued.outcome = "returned"

\* a request that was responded to is issued again to a service that
\* returns without responding
C29_Witness ==
    /\ issued.by # "none"
    /\ "did_respond" \in issued.before
    /\ issued.does = "return"
    /\ issued.invoked # << >>
    /\ request._client
    /\ issued.responses = <<"NoContent">>
    /\ "did_send" \in request.features

(***************************************************************************)
(* publish(): the delivery of an event to the subscribers of its topic and *)
(* of the ancestors, and the follow-up events of subscribers that throw,   *)
(* by topic_::publish and by resource::publish, one call at a time.        *)
(***************************************************************************)
\* the ignore masks subscriptions are made with
SubscriptionMasks ==
    {default_subscription_ignore, default_service_ignore, {"logging"}}

\* publish() returned, having invoked nobody
NoTrace == [trace |-> << >>, thrown |-> FALSE, raised |-> << >>]

\* the second part of publish() put before the first
Then_swapped(a, b) ==
    IF a.thrown THEN a
    ELSE [trace |-> b.trace \o a.trace, thrown |-> b.thrown,
          raised |-> b.raised \o a.raised]

\* one part of publish() after another: the second runs unless the first threw
Then(a, b) ==
    IF a.thrown THEN a
    ELSE [trace |-> a.trace \o b.trace, thrown |-> b.thrown,
          raised |-> a.raised \o b.raised]

\* try {sub.func(msg);} catch (...): the exception of subscriber i is caught
catch_none(i) == FALSE

catch_all(i) == TRUE

\* sub.func(msg) for subscriber i and the event tagged of
Call(i, of) ==
    [trace |-> <<[sub |-> i, of |-> of]>>,
     thrown |-> subscribers[i].throws /\ ~catch_all(i), raised |-> << >>]

\* the follow-up event made for the exception of subscriber i: the node it is
\* published on, its filtering flags, and whether the event i threw on carried
\* subscriber_exception itself; its payload is the exception of i
Raise(i, carried, on, flags) ==
    [trace |-> << >>, thrown |-> FALSE,
     raised |-> <<[sub |-> i, carried |-> carried, on |-> on, flags |-> flags]>>]

\* if (resource_node_ptr parent = node->parent()): where the exception of an
\* exception subscriber goes
exception_parent_none(node) == NullNode

\* the exception of an exception subscriber published where it was thrown
exception_parent_same(node) == node

exception_parent(node) == parent(node)

RECURSIVE topic_publish(_, _, _, _)

RECURSIVE publish_loop(_, _, _, _)

RECURSIVE publish_subs(_, _, _, _, _)

\* topic_::_publish_exception(msg, sub, exception), with node = sub.resource
_publish_exception(i, node, f) ==
    IF "subscriber_exception" \in f
      THEN IF exception_parent(node) # NullNode
             THEN Then(Raise(i, TRUE, exception_parent(node),
                             {"subscriber_exception", "recursive"}),
                       topic_publish(exception_parent(node), TRUE,
                             {"subscriber_exception", "recursive"}, "exception"))
             ELSE NoTrace
      ELSE Then(Raise(i, FALSE, node, {"subscriber_exception"}),
                topic_publish(node, TRUE, {"subscriber_exception"}, "exception"))

\* for (subscription &sub : node->subscribers()) if (sub.accepts(filtering)),
\* from subscriber i on
publish_subs(i, node, filtering, f, of) ==
    IF i > Len(subscribers) THEN NoTrace
    ELSE IF \/ subscribers[i].node # node
            \/ ~accepts(subscribers[i].ignored, filtering)
           THEN publish_subs(i + 1, node, filtering, f, of)
           ELSE Then(Call(i, of),
                     Then(IF subscribers[i].throws
                            THEN _publish_exception(i, node, f) ELSE NoTrace,
                          publish_subs(i + 1, node, filtering, f, of)))

\* topic_::publish from the label start_resolved on
publish_body(node, filtering, f, of) ==
    Then(publish_subs(1, node, filtering, f, of),
         publish_loop(parent(node), filtering, f, of))

\* topic_::publish: while (recursive && node) {filtering |= flags::recursive; ...}
publish_loop(node, filtering, f, of) ==
    IF "recursive" \in f /\ node # NullNode
      THEN publish_body(node, filtering \cup {"recursive"}, f, of)
      ELSE NoTrace

\* topic_::publish(msg): an unresolved target starts at its nearest node
topic_publish(node, resolved, f, of) ==
    IF resolved
      THEN publish_body(node, f \ {"recursive"}, f, of)
      ELSE publish_loop(node, f \ {"recursive"}, f, of)

RECURSIVE resource_publish(_, _, _)

RECURSIVE publish_non_recursive(_, _, _, _, _)

RECURSIVE publish_ancestors(_, _, _)

\* resource::publish_non_recursive(msg, filtering) on resource this, from
\* subscriber i on; a subscriber's exception is published as an event
publish_non_recursive(this, i, filtering, f, of) ==
    IF i > Len(subscribers) THEN NoTrace
    ELSE IF \/ subscribers[i].node # this
            \/ ~accepts(subscribers[i].ignored, filtering)
           THEN publish_non_recursive(this, i + 1, filtering, f, of)
           ELSE Then(Call(i, of),
                     Then(IF ~subscribers[i].throws THEN NoTrace
                          ELSE IF "subscriber_exception" \in f
                                 THEN IF exception_parent(this) # NullNode
                                        THEN Then(Raise(i, TRUE, exception_parent(this),
                                                    {"subscriber_exception", "recursive"}),
                                                  resource_publish(exception_parent(this),
                                                    {"subscriber_exception", "recursive"},
                                                    "exception"))
                                        ELSE NoTrace
                                 ELSE Then(Raise(i, FALSE, this,
                                             {"subscriber_exception", "recursive"}),
                                           resource_publish(this,
                                             {"subscriber_exception", "recursive"},
                                             "exception")),
                          publish_non_recursive(this, i + 1, filtering, f, of)))

\* resource::publish: for (node = parent(); node; node = node->parent())
\*     node->publish_non_recursive(msg, msg.filtering | flags::recursive)
publish_ancestors(node, f, of) ==
    IF node = NullNode THEN NoTrace
    ELSE Then(publish_non_recursive(node, 1, f \cup {"recursive"}, f, of),
              publish_ancestors(parent(node), f, of))

\* resource::publish(msg)
resource_publish(this, f, of) ==
    Then(publish_non_recursive(this, 1, f \ {"recursive"}, f, of),
         IF "recursive" \in f THEN publish_ancestors(parent(this), f, of)
         ELSE NoTrace)

\* subscribe() on node n: the pool's next free slot takes the subscription
Subscribe(n, ignored, throws) ==
    /\ Len(subscribers) < MaxSubs
    /\ subscribers' = Append(subscribers,
                             [node |-> n, ignored |-> ignored, throws |-> throws])
    /\ event' = NoEvent
    /\ published' = NoPublish
    /\ UNCHANGED nonPubVars

\* an event is published through a topic; publish() leaves the subscriptions
\* as they are, so one publish() is followed from each set of subscriptions
PublishTopic(n, resolved, f) ==
    LET r == topic_publish(n, resolved, f, "event") IN
      /\ published.by = "none"
      /\ event' = [target |-> n, resolved |-> resolved, filtering |-> f]
      /\ published' = [by |-> "topic_", trace |-> r.trace, thrown |-> r.thrown,
                       raised |-> r.raised]
      /\ UNCHANGED <<nonPubVars, subscribers>>

\* an event is published on a resource, which always exists
PublishResource(n, f) ==
    LET r == resource_publish(n, f, "event") IN
      /\ published.by = "none"
      /\ event' = [target |-> n, resolved |-> TRUE, filtering |-> f]
      /\ published' = [by |-> "resource", trace |-> r.trace, thrown |-> r.thrown,
                       raised |-> r.raised]
      /\ UNCHANGED <<nonPubVars, subscribers>>

EventFilterings == SUBSET {"recursive", "subscriber_exception"}

PubNext ==
    \/ \E n \in TopicNodes, ignored \in SubscriptionMasks, throws \in BOOLEAN :
           Subscribe(n, ignored, throws)
    \/ \E n \in TopicNodes, resolved \in BOOLEAN, f \in EventFilterings :
           PublishTopic(n, resolved, f)
    \/ \E n \in TopicNodes, f \in EventFilterings : PublishResource(n, f)

\* topic nodes without subscriptions
PubInit ==
    /\ x = 0
    /\ gpc = [t \in GuardThreads |-> "idle"]
    /\ pass = [s \in Slots |-> 0]
    /\ weak = [s \in Slots |-> NoObj]
    /\ uses = [o \in Objs |-> 0]
    /\ life = [o \in Objs |-> "unborn"]
    /\ nextObj = 1
    /\ pc = [t \in Threads |-> "idle"]
    /\ tslot = [t \in Threads |-> ServiceSlot]
    /\ tref = [t \in Threads |-> NoObj]
    /\ tflag = [t \in Threads |-> FALSE]
    /\ held = [t \in Threads |-> NoObj]
    /\ _map = [k \in Keys |-> Absent]
    /\ _mtx = [shared |-> {}, unique |-> {}]
    /\ nuses = [n \in Nodes |-> 0]
    /\ nkey = [n \in Nodes |-> 0]
    /\ nextNode = 1
    /\ kpc = [t \in TableThreads |-> "idle"]
    /\ kkey = [t \in TableThreads |-> 1]
    /\ knode = [t \in TableThreads |-> NoNode]
    /\ chain = 1
    /\ pubHeld = {}
    /\ pubSeen = [o \in Objs |-> 0]
    /\ services = [n \in TopicNodes |-> NoService]
    /\ request = NoRequest
    /\ issued = NoIssue
    /\ subscribers = << >>
    /\ event = NoEvent
    /\ published = NoPublish
    /\ relayed = NoRelay
    /\ converted = NoConverted
    /\ trie = NoTrie
    /\ searched = NoSearched
    /\ id_counter = 1
    /\ ids = [t \in Threads |-> << >>]
    /\ promise = [c \in Clients |-> NoPromise]
    /\ responded = NoResponded
    /\ view = NoView
    /\ bound = NoBound
    /\ visited = NoVisited
    /\ cascade = NoCascade
    /\ gop = [t \in GuardThreads |-> "none"]
    /\ auto = NoAuto
    /\ nservice = [n \in Nodes |-> FALSE]


SpecPub == PubInit /\ [][PubNext]_vars

EventAncestors ==
    IF event.resolved THEN 1..(event.target - 1) ELSE 1..event.target

\* the subscriptions the published event is for: those on its destination
\* that accept its filtering without the recursive bit and, for a recursive
\* event, those on the ancestors that accept it with the bit
Addressed ==
    {i \in 1..Len(subscribers) :
        \/ /\ event.resolved
           /\ subscribers[i].node = event.target
           /\ subscribers[i].ignored \cap (event.filtering \ {"recursive"}) = {}
        \/ /\ "recursive" \in event.filtering
           /\ subscribers[i].node \in EventAncestors
           /\ subscribers[i].ignored \cap (event.filtering \cup {"recursive"}) = {}}

\* the times publish() invoked subscription i with the published event
Invocations(i) ==
    Cardinality({k \in 1..Len(published.trace) :
                    published.trace[k] = [sub |-> i, of |-> "event"]})

Carried(k) ==
    \/ published.trace[k].of = "exception"
    \/ "subscriber_exception" \in event.filtering

\* the times subscriber i was invoked with an event that did (c) or did not
\* carry subscriber_exception
Throws(i, c) ==
    Cardinality({k \in 1..Len(published.trace) :
                    published.trace[k].sub = i /\ Carried(k) = c})

\* the follow-up events published for exceptions of subscriber i
Raised(i, c) ==
    Cardinality({k \in 1..Len(published.raised) :
                    published.raised[k].sub = i /\ published.raised[k].carried = c})

\* C11: each exception a subscriber throws on an event without
\* subscriber_exception makes exactly one follow-up event, flagged
\* subscriber_exception, on the subscriber's own topic; thrown on an event that
\* carries the flag it makes one on the parent of that topic, and none at the
\* root; all of it before publish() returns.
C11_ExceptionFollowUp ==
    published.by # "none"
        => /\ \A k \in 1..Len(published.raised) :
                LET r == published.raised[k] IN
                  /\ "subscriber_exception" \in r.flags
                  /\ r.on # NullNode
                  /\ r.on = IF r.carried THEN subscribers[r.sub].node - 1
                            ELSE subscribers[r.sub].node
           /\ \A i \in 1..Len(subscribers) : subscribers[i].throws =>
                /\ Raised(i, FALSE) = Throws(i, FALSE)
                /\ Raised(i, TRUE) = IF subscribers[i].node = 1 THEN 0
                                     ELSE Throws(i, TRUE)

\* a subscriber below the root threw on the event and again on the follow-up
\* event of its own exception
C11_Witness ==
    /\ published.by # "none"
    /\ \E k, l \in 1..Len(published.raised) :
          /\ published.raised[k].sub = published.raised[l].sub
          /\ ~published.raised[k].carried
          /\ published.raised[l].carried

\* the invocations publish() made with the published event itself, in order
EventTrace ==
    SelectSeq(published.trace, LAMBDA c : c.of = "event")

\* C30: in one recursive publish() every subscriber of a node that accepts
\* the event is invoked before any subscriber of a proper ancestor of the
\* node: the walk goes from the destination to the root, node after node.
C30_LeafFirst ==
    (published.by # "none" /\ "recursive" \in event.filtering)
        => /\ \A i \in Addressed : Invocations(i) >= 1
           /\ \A k, l \in 1..Len(EventTrace) :
                 k < l => subscribers[EventTrace[k].sub].node
                            >= subscribers[EventTrace[l].sub].node

\* a recursive event went to a subscriber of its destination and then to a
\* subscriber of an ancestor that had subscribed earlier
C30_Witness ==
    /\ published.by # "none"
    /\ "recursive" \in event.filtering
    /\ Len(EventTrace) = 2
    /\ EventTrace[1].sub > EventTrace[2].sub
    /\ subscribers[EventTrace[1].sub].node = event.target
    /\ subscribers[EventTrace[1].sub].node > subscribers[EventTrace[2].sub].node

(***************************************************************************)
(* Relays and handling requirements: forward_requests(), forward_events()  *)
(* and issue() over a tree of topics one of which may be served by a relay.*)
(***************************************************************************)
\* a topic is the sequence of the ids on its path; the root is << >>
RelayTopics == {<< >>} \cup {<<i>> : i \in Keys} \cup {<<1, i>> : i \in Keys}

\* topic_::_pop / node->parent(): the parent of the root is null
_pop(p) == IF Len(p) = 0 THEN NullTopic ELSE SubSeq(p, 1, Len(p) - 1)

\* topic_::is_ancestor_of: other is popped down to the length of this topic
RECURSIVE is_ancestor_of(_, _)
is_ancestor_of(this, other) ==
    IF Len(other) < Len(this) THEN FALSE
    ELSE IF Len(other) = Len(this) THEN this = other
    ELSE is_ancestor_of(this, _pop(other))

\* the test forward_requests() and forward_events() open with
forward_refused_never(flags, this, destination_topic) == FALSE

forward_refused(flags, this, destination_topic) ==
    "recursive" \notin flags /\ is_ancestor_of(this, destination_topic)

\* the handling flags of flags.hpp the model tells apart
HandlingFlags == {"realtime"}

\* receiver::unhandled_flags: requirements & ~handling
unhandled_flags(handling, requirements) == requirements \ handling

\* the ignore masks relays are made with: the default of a subscription,
\* which receives recursive messages, and the default of a service
ForwardMasks == {default_subscription_ignore, default_service_ignore}

NoRouteService ==
    [live |-> FALSE, ignored |-> {}, handling |-> {}, forward |-> NullTopic]

NoRouted ==
    [by |-> "none", target |-> << >>, filtering |-> {}, requirements |-> {},
     does |-> "none", topic |-> << >>, features |-> {}, invoked |-> << >>,
     responses |-> << >>, outcome |-> "none"]

\* request::respond, for a request that has a client
route_respond(m, status) ==
    [m EXCEPT !.features = @ \cup {"did_respond"},
              !.responses = Append(@, [topic |-> m.topic, status |-> status])]

\* issue(): the default response, then features |= did_send; return
route_sent(m) ==
    LET d == IF "did_respond" \in m.features THEN m ELSE route_respond(m, "NoContent")
    IN  [d EXCEPT !.features = @ \cup {"did_send"}, !.outcome = "sent"]

\* the relay's service function: request.topic = service_topic
forward_topic_kept(topic, service_topic) == topic

forward_topic(topic, service_topic) == service_topic

RECURSIVE route_issue(_, _, _)
RECURSIVE route_walk(_, _, _, _)
\* try {svc->func(msg);} catch (status) ... catch (status_exception &) ...:
\* the function of a relay re-issues the request to its destination (a relay
\* that is reached from inside itself recurses without end); a plain
\* service does as m.does says
route_found(node, m, inside) ==
    LET called == [m EXCEPT !.invoked = Append(@, node)]
        to     == services[node].forward
    IN  IF to # NullTopic
          THEN IF inside
                 THEN [called EXCEPT !.outcome = "stack_overflow"]
                 ELSE LET r == route_issue(to,
                                   [called EXCEPT !.topic = forward_topic(@, to)], TRUE)
                      IN  IF r.outcome = "sent" THEN route_sent(r) ELSE r
          ELSE CASE m.does = "return" -> route_sent(called)
                 [] m.does = "respond" -> route_sent(route_respond(called, "OK"))
                 [] m.does = "throw_status" ->
                        route_sent(route_respond(called, "NotFound"))
                 [] m.does = "throw_status_exception" ->
                        route_sent(route_respond(called, "NotFound"))
                 [] OTHER -> [called EXCEPT !.outcome = "exception"]

\* the loop of topic_::issue from node on; first tells the pass entered at
\* start_resolved, made with recursive cleared from the filtering
route_walk(node, first, m, inside) ==
    IF node = NullTopic
      THEN [m EXCEPT !.outcome = "service_not_found"]
      ELSE LET filtering == IF first THEN m.filtering \ {"recursive"}
                                     ELSE m.filtering \cup {"recursive"}
           IN  IF services[node].live /\ accepts(services[node].ignored, filtering)
                 THEN route_found(node, m, inside)
                 ELSE IF "recursive" \in m.filtering
                        THEN route_walk(_pop(node), FALSE, m, inside)
                        ELSE [m EXCEPT !.outcome = "service_not_found"]

\* topic_::issue(msg) on the resolved topic target
route_issue(target, m, inside) ==
    route_walk(target, TRUE, [m EXCEPT !.features = @ \ {"did_respond"}], inside)

\* topic.serve(function, flags) of a plain service, on a topic not yet served
RouteServe(n, ignored, handling) ==
    /\ issued.by = "none"
    /\ \A t \in RelayTopics : services[t].live => services[t].forward # NullTopic
    /\ ~services[n].live
    /\ services' = [services EXCEPT ![n] =
           [live |-> TRUE, ignored |-> ignored, handling |-> handling,
            forward |-> NullTopic]]
    /\ UNCHANGED <<nonRouteVars, pubVars, relayVars>>
    /\ UNCHANGED <<request, issued>>

\* this.forward_requests(service_topic, flags): throws, or hands the relay's
\* function to serve(), which returns null on a topic that is served already
forward_requests(this, service_topic, flags) ==
    /\ issued.by = "none"
    /\ relayed.by = "none"
    /\ IF forward_refused(flags, this, service_topic)
         THEN /\ relayed' = [by |-> "forward_requests", from |-> this,
                             to |-> service_topic, ignored |-> flags,
                             thrown |-> TRUE, made |-> FALSE]
              /\ UNCHANGED services
         ELSE IF services[this].live
                THEN /\ relayed' = [by |-> "forward_requests", from |-> this,
                                    to |-> service_topic, ignored |-> flags,
                                    thrown |-> FALSE, made |-> FALSE]
                     /\ UNCHANGED services
                ELSE /\ relayed' = [by |-> "forward_requests", from |-> this,
                                    to |-> service_topic, ignored |-> flags,
                                    thrown |-> FALSE, made |-> TRUE]
                     /\ services' = [services EXCEPT ![this] =
                            [live |-> TRUE, ignored |-> flags, handling |-> {},
                             forward |-> service_topic]]
    /\ UNCHANGED <<nonRouteVars, pubVars>>
    /\ UNCHANGED <<request, issued>>

\* this.forward_events(destination_topic, flags): throws, or hands the
\* relay's function to subscribe()
forward_events(this, destination_topic, flags) ==
    /\ issued.by = "none"
    /\ relayed.by = "none"
    /\ IF forward_refused(flags, this, destination_topic)
         THEN /\ relayed' = [by |-> "forward_events", from |-> this,
                             to |-> destination_topic, ignored |-> flags,
                             thrown |-> TRUE, made |-> FALSE]
              /\ UNCHANGED subscribers
         ELSE /\ relayed' = [by |-> "forward_events", from |-> this,
                             to |-> destination_topic, ignored |-> flags,
                             thrown |-> FALSE, made |-> TRUE]
              /\ subscribers' = Append(subscribers,
                     [node |-> this, ignored |-> flags,
                      forward |-> destination_topic])
    /\ UNCHANGED <<nonRouteVars, issueVars>>
    /\ UNCHANGED <<event, published>>

\* a request with a client, made with the filtering and handling flags
\* given, is issued to target; the plain service it meets does as said
RouteIssue(target, filtering, requirements, does) ==
    /\ issued.by = "none"
    /\ relayed.by # "forward_events"
    /\ \E t \in RelayTopics : services[t].live
    /\ issued' = route_issue(target,
                     [by |-> "issue", target |-> target, filtering |-> filtering,
                      requirements |-> requirements, does |-> does,
                      topic |-> target, features |-> {}, invoked |-> << >>,
                      responses |-> << >>, outcome |-> "none"], FALSE)
    /\ UNCHANGED <<nonRouteVars, pubVars, relayVars>>
    /\ UNCHANGED <<services, request>>

RouteNext ==
    \/ \E n \in RelayTopics, ignored \in ServiceMasks, handling \in SUBSET HandlingFlags :
           RouteServe(n, ignored, handling)
    \/ \E this, to \in RelayTopics, flags \in ForwardMasks :
           forward_requests(this, to, flags)
    \/ \E this, to \in RelayTopics, flags \in ForwardMasks :
           forward_events(this, to, flags)
    \/ \E target \in RelayTopics, filtering \in SUBSET {"recursive"},
          requirements \in SUBSET HandlingFlags, does \in ServiceDoes :
           RouteIssue(target, filtering, requirements, does)

\* no topic is served, nothing is subscribed, nothing was issued
RouteInit ==
    /\ x = 0
    /\ gpc = [t \in GuardThreads |-> "idle"]
    /\ pass = [s \in Slots |-> 0]
    /\ weak = [s \in Slots |-> NoObj]
    /\ uses = [o \in Objs |-> 0]
    /\ life = [o \in Objs |-> "unborn"]
    /\ nextObj = 1
    /\ pc = [t \in Threads |-> "idle"]
    /\ tslot = [t \in Threads |-> ServiceSlot]
    /\ tref = [t \in Threads |-> NoObj]
    /\ tflag = [t \in Threads |-> FALSE]
    /\ held = [t \in Threads |-> NoObj]
    /\ _map = [k \in Keys |-> Absent]
    /\ _mtx = [shared |-> {}, unique |-> {}]
    /\ nuses = [n \in Nodes |-> 0]
    /\ nkey = [n \in Nodes |-> 0]
    /\ nextNode = 1
    /\ kpc = [t \in TableThreads |-> "idle"]
    /\ kkey = [t \in TableThreads |-> 1]
    /\ knode = [t \in TableThreads |-> NoNode]
    /\ chain = 1
    /\ pubHeld = {}
    /\ pubSeen = [o \in Objs |-> 0]
    /\ services = [t \in RelayTopics |-> NoRouteService]
    /\ request = NoRequest
    /\ issued = NoRouted
    /\ subscribers = << >>
    /\ event = NoEvent
    /\ published = NoPublish
    /\ relayed = NoRelay
    /\ converted = NoConverted
    /\ trie = NoTrie
    /\ searched = NoSearched
    /\ id_counter = 1
    /\ ids = [t \in Threads |-> << >>]
    /\ promise = [c \in Clients |-> NoPromise]
    /\ responded = NoResponded
    /\ view = NoView
    /\ bound = NoBound
    /\ visited = NoVisited
    /\ cascade = NoCascade
    /\ gop = [t \in GuardThreads |-> "none"]
    /\ auto = NoAuto
    /\ nservice = [n \in Nodes |-> FALSE]

SpecRoute == RouteInit /\ [][RouteNext]_vars

\* the topic the last issue() was made to is served by a relay that takes
\* the request, and the relay's destination by a plain service that takes it
RelayedToService ==
    /\ issued.by # "none"
    /\ LET relay == services[issued.target]
           plain == services[relay.forward]
           filtering == issued.filtering \ {"recursive"}
       IN  /\ relay.live /\ relay.forward # NullTopic
           /\ accepts(relay.ignored, filtering)
           /\ plain.live /\ plain.forward = NullTopic
           /\ accepts(plain.ignored, filtering)

\* C15: a request issued to a topic served by a relay is issued again to the
\* relay's destination: the service there is called once, and what it
\* answers (its response, the status it throws, or the default NoContent)
\* reaches the client once, under the destination topic.
C15_RelayedRequest ==
    (RelayedToService /\ issued.does # "throw_other") =>
        LET to == services[issued.target].forward
        IN  /\ issued.invoked = <<issued.target, to>>
            /\ issued.topic = to
            /\ issued.outcome = "sent"
            /\ issued.responses =
                 << [topic |-> to,
                     status |-> CASE issued.does = "return" -> "NoContent"
                                  [] issued.does = "respond" -> "OK"
                                  [] OTHER -> "NotFound"] >>

\* a request to a relay was answered by the service of a topic that is
\* neither above nor below the relay's
C15_Witness ==
    /\ RelayedToService
    /\ issued.does = "respond"
    /\ Len(issued.responses) = 1
    /\ ~is_ancestor_of(issued.target, issued.responses[1].topic)
    /\ ~is_ancestor_of(issued.responses[1].topic, issued.target)

\* topic to is topic from or lies below it
AtOrBelow(from, to) ==
    Len(from) <= Len(to) /\ SubSeq(to, 1, Len(from)) = from

\* the services and subscriptions that are relays
RelayServices == {t \in RelayTopics : services[t].live /\ services[t].forward # NullTopic}

RelaySubscriptions == {k \in 1..Len(subscribers) : subscribers[k].forward # NullTopic}

\* C16: forward_events() and forward_requests() throw, registering nothing,
\* exactly when the relay is to receive recursive messages and the
\* destination is the source topic itself or lies below it; otherwise
\* forward_events() registers the relay, and forward_requests() registers it
\* unless the source topic is served already, when it returns null.
C16_RelayRefusal ==
    relayed.by # "none" =>
        /\ relayed.thrown <=> /\ "recursive" \notin relayed.ignored
                              /\ AtOrBelow(relayed.from, relayed.to)
        /\ relayed.thrown =>
              ~relayed.made /\ RelayServices = {} /\ RelaySubscriptions = {}
        /\ (~relayed.thrown /\ relayed.by = "forward_events") =>
              /\ relayed.made
              /\ subscribers = << [node |-> relayed.from, ignored |-> relayed.ignored,
                                   forward |-> relayed.to] >>
        /\ (~relayed.thrown /\ relayed.by = "forward_requests") =>
              IF relayed.made
                THEN services[relayed.from] =
                         [live |-> TRUE, ignored |-> relayed.ignored,
                          handling |-> {}, forward |-> relayed.to]
                ELSE /\ services[relayed.from].live
                     /\ RelayServices = {}

\* C16 as stated: they throw exactly when the relay is to receive recursive
\* messages and the destination lies below the source topic, and in every
\* other case the relay is registered.
C16_AsStated ==
    relayed.by # "none" =>
        /\ relayed.thrown <=> /\ "recursive" \notin relayed.ignored
                              /\ AtOrBelow(relayed.from, relayed.to)
                              /\ relayed.from # relayed.to
        /\ ~relayed.thrown => relayed.made

\* a relay from the root to a topic two levels down was refused
C16_Witness ==
    /\ relayed.thrown
    /\ Len(relayed.to) = Len(relayed.from) + 2

\* C17: no service function is called with a request that carries a handling
\* requirement the service has not declared: issue() raises
\* handling_unavailable in its place.
C17_HandlingUnavailable ==
    issued.by # "none" =>
        \A k \in 1..Len(issued.invoked) :
            unhandled_flags(services[issued.invoked[k]].handling,
                            issued.requirements) = {}

(***************************************************************************)
(* conversion_table: set() behind conversion_define(), the handles it      *)
(* returns, and convert() / try_convert(). A pair (To, From) is a key of   *)
(* the table's locking_weak_table and a rule is an object a weak_ptr of    *)
(* the table refers to.                                                    *)
(***************************************************************************)
\* locking_weak_table::set without the erase: emplace() leaves the entry
\* of a key that has one
table_set_kept(map, key, value) ==
    IF map[key] = Absent THEN [map EXCEPT ![key] = value] ELSE map

\* locking_weak_table::set: pos = _find(key); if (pos != _map.end())
\* _map.erase(pos); _map.emplace(key, value)
table_set(map, key, value) == [map EXCEPT ![key] = value]

\* conversion_table::set: make_shared<impl_type>(func), then _table.set(),
\* which replaces the entry of the pair; the caller keeps the handle
conversion_define(k) ==
    /\ nextNode <= MaxNode
    /\ _map' = table_set(_map, k, nextNode)
    /\ nuses' = [nuses EXCEPT ![nextNode] = 1]
    /\ nkey' = [nkey EXCEPT ![nextNode] = k]
    /\ nextNode' = nextNode + 1
    /\ converted' = NoConverted
    /\ UNCHANGED nonConvVars
    /\ UNCHANGED <<_mtx, kpc, kkey, knode>>

\* the registrant lets go of the handle set() returned for rule r
rule_drop(r) ==
    /\ nuses[r] > 0
    /\ nuses' = [nuses EXCEPT ![r] = 0]
    /\ converted' = NoConverted
    /\ UNCHANGED nonConvVars
    /\ UNCHANGED <<_map, _mtx, nkey, nextNode, kpc, kkey, knode>>

\* locking_weak_table::find: pos->second.lock(), or null without an entry
rule_find(k) ==
    IF _map[k] = Absent THEN NoNode
    ELSE IF nuses[_map[k]] > 0 THEN _map[k] ELSE NoNode

\* conversion_table::convert: get(to, from)->convert(x), where get() throws
\* no_conversion_rule when find() yields null
convert(k) ==
    /\ converted' = IF rule_find(k) = NoNode
                      THEN [by |-> "convert", pair |-> k,
                            result |-> "no_conversion_rule", rule |-> NoNode]
                      ELSE [by |-> "convert", pair |-> k,
                            result |-> "converted", rule |-> rule_find(k)]
    /\ UNCHANGED <<nonConvVars, tableVars>>

\* conversion_table::try_convert: if (!r) return on_error; else r->convert(x)
try_convert(k) ==
    /\ converted' = IF rule_find(k) = NoNode
                      THEN [by |-> "try_convert", pair |-> k,
                            result |-> "on_error", rule |-> NoNode]
                      ELSE [by |-> "try_convert", pair |-> k,
                            result |-> "converted", rule |-> rule_find(k)]
    /\ UNCHANGED <<nonConvVars, tableVars>>

ConvNext ==
    \/ \E k \in Keys : conversion_define(k)
    \/ \E r \in Nodes : rule_drop(r)
    \/ \E k \in Keys : convert(k)
    \/ \E k \in Keys : try_convert(k)

\* an empty table
ConvInit ==
    /\ x = 0
    /\ gpc = [t \in GuardThreads |-> "idle"]
    /\ pass = [s \in Slots |-> 0]
    /\ weak = [s \in Slots |-> NoObj]
    /\ uses = [o \in Objs |-> 0]
    /\ life = [o \in Objs |-> "unborn"]
    /\ nextObj = 1
    /\ pc = [t \in Threads |-> "idle"]
    /\ tslot = [t \in Threads |-> ServiceSlot]
    /\ tref = [t \in Threads |-> NoObj]
    /\ tflag = [t \in Threads |-> FALSE]
    /\ held = [t \in Threads |-> NoObj]
    /\ _map = [k \in Keys |-> Absent]
    /\ _mtx = [shared |-> {}, unique |-> {}]
    /\ nuses = [n \in Nodes |-> 0]
    /\ nkey = [n \in Nodes |-> 0]
    /\ nextNode = 1
    /\ kpc = [t \in TableThreads |-> "idle"]
    /\ kkey = [t \in TableThreads |-> 1]
    /\ knode = [t \in TableThreads |-> NoNode]
    /\ chain = 1
    /\ pubHeld = {}
    /\ pubSeen = [o \in Objs |-> 0]
    /\ services = [n \in TopicNodes |-> NoService]
    /\ request = NoRequest
    /\ issued = NoIssue
    /\ subscribers = << >>
    /\ event = NoEvent
    /\ published = NoPublish
    /\ relayed = NoRelay
    /\ converted = NoConverted
    /\ trie = NoTrie
    /\ searched = NoSearched
    /\ id_counter = 1
    /\ ids = [t \in Threads |-> << >>]
    /\ promise = [c \in Clients |-> NoPromise]
    /\ responded = NoResponded
    /\ view = NoView
    /\ bound = NoBound
    /\ visited = NoVisited
    /\ cascade = NoCascade
    /\ gop = [t \in GuardThreads |-> "none"]
    /\ auto = NoAuto
    /\ nservice = [n \in Nodes |-> FALSE]

SpecConv == ConvInit /\ [][ConvNext]_vars

\* the rules registered for pair k whose handles are still held
HeldRules(k) == {r \in Nodes : nkey[r] = k /\ nuses[r] > 0}

\* C18: while the handle of a rule registered for a pair is held, convert()
\* and try_convert() for the pair use a rule whose handle is held; once no
\* handle of a rule for the pair is left, convert() raises
\* no_conversion_rule and try_convert() returns the default; the rules of
\* the other pairs make no difference.
C18_RuleWhileHeld ==
    converted.by # "none" =>
        IF HeldRules(converted.pair) # {}
          THEN /\ converted.result = "converted"
               /\ converted.rule \in HeldRules(converted.pair)
          ELSE converted.result =
                   IF converted.by = "convert" THEN "no_conversion_rule"
                                               ELSE "on_error"

\* the rules registered for pair k, held or not
Registered(k) == {r \in Nodes : nkey[r] = k}

\* the rule registered last for pair k
Latest(k) == CHOOSE r \in Registered(k) : \A q \in Registered(k) : q <= r

\* C40: when rules were registered one after another for one pair, convert()
\* and try_convert() for the pair use the rule registered last for as long
\* as its handle is held, whether the handles of the earlier rules are held
\* or dropped, and no lookup yields a rule whose handle has been dropped.
C40_LatestRule ==
    converted.by # "none" =>
        /\ (/\ Cardinality(Registered(converted.pair)) >= 2
            /\ nuses[Latest(converted.pair)] > 0)
               => /\ converted.result = "converted"
                  /\ converted.rule = Latest(converted.pair)
        /\ converted.rule # NoNode => nuses[converted.rule] > 0

\* a lookup used the second rule of a pair after the first was dropped
C40_Witness ==
    /\ converted.result = "converted"
    /\ Cardinality(Registered(converted.pair)) = 2
    /\ converted.rule = Latest(converted.pair)
    /\ \E r \in Registered(converted.pair) : nuses[r] = 0

(***************************************************************************)
(* trie_: the tree of resource nodes under one root. A child holds its     *)
(* parent through _parent, the parent refers to its children through the   *)
(* weak_ptrs of _children; topics, services and subscriptions hold the     *)
(* node they stand on. get(), find(), nearest() and try_child() start at        *)
(* the root.                                                               *)
(***************************************************************************)
\* the paths handed to get(), find() and nearest(): up to two ids
TriePaths ==
    {<< >>} \cup {<<a>> : a \in TrieIds \cup {EmptyId}}
            \cup {<<a, b>> : a, b \in TrieIds \cup {EmptyId}}

\* the smallest node that is free to stand for a new trie_
alloc(T) ==
    IF \A n \in Nodes : T.live[n] THEN NoNode
    ELSE CHOOSE n \in Nodes : ~T.live[n] /\ \A m \in Nodes : m < n => T.live[m]

\* a shared_ptr to node n is copied
acquire(T, n) == [T EXCEPT !.uses[n] = @ + 1]

\* every weak_ptr to node n, in whatever table it is kept, has expired
expire(T, n) ==
    [T EXCEPT !._children =
        [m \in Nodes |-> [k \in TrieIds |->
            IF T._children[m][k] = n THEN Expired ELSE T._children[m][k]]]]

\* a shared_ptr to node n is released: at zero ~trie_() runs, the weak_ptrs
\* the tables keep for it are expired from then on, and _parent is released
\* in turn
RECURSIVE release(_, _)
release(T, n) ==
    IF T.uses[n] # 1 THEN [T EXCEPT !.uses[n] = @ - 1]
    ELSE LET p == T._parent[n]
             gone == expire([T EXCEPT !.uses[n] = 0, !.live[n] = FALSE,
                                      !._parent[n] = NoNode, !.id[n] = EmptyId,
                                      !._path[n] = << >>,
                                      !._children[n] = NoChildren], n)
         IN  IF p = NoNode THEN gone ELSE release(gone, p)

\* trie_(id, parent): what _parent(std::move(parent)) does to the count of
\* the parent
adopt_weakly(count) == count

adopt(count) == count + 1

\* the separator, a character that stands in no id; a string is a sequence
\* of characters and the string of an id is that id alone
separator == 0 - 1

\* the characters of id
str(id) == IF id = EmptyId THEN << >> ELSE <<id>>

\* a concatenation that puts the separator after any base
_concat_always(base, id) == base \o <<separator>> \o id

\* trie_::_concat(base, separator, id)
_concat(base, id) ==
    IF Len(base) > 0 THEN base \o <<separator>> \o id ELSE id

\* try_child -> locking_weak_table::find: the child, with a reference to it
trie_try_child(T, n, id) ==
    IF T._children[n][id] \in {Absent, Expired}
      THEN [T |-> T, node |-> NoNode]
      ELSE [T |-> acquire(T, T._children[n][id]), node |-> T._children[n][id]]

\* get_child -> find_or_create<constructor>(id, id, *this)
trie_get_child(T, n, id) ==
    IF trie_try_child(T, n, id).node # NoNode THEN trie_try_child(T, n, id)
    ELSE IF alloc(T) = NoNode THEN [T |-> T, node |-> NoNode]
    ELSE LET c == alloc(T)
         IN  [T |-> [T EXCEPT !.live[c] = TRUE, !.uses[c] = 1,
                              !._parent[c] = n, !.id[c] = id,
                              !._path[c] = _concat(T._path[n], str(id)),
                              !.uses[n] = adopt(@),
                              !._children[n][id] = c],
              node |-> c]

\* get(path) from node on, which the caller holds: node = node->get_child(id)
RECURSIVE get(_, _, _)
get(T, node, path) ==
    IF path = << >> THEN [T |-> T, node |-> node]
    ELSE IF Head(path) = EmptyId THEN get(T, node, Tail(path))
    ELSE LET r == trie_get_child(T, node, Head(path))
         IN  IF r.node = NoNode THEN [T |-> release(r.T, node), node |-> NoNode]
             ELSE get(release(r.T, node), r.node, Tail(path))

\* what _search returns from the step at which try_child finds nothing
search_miss_null(Nearest, node) == NoNode

search_miss(Nearest, node) == IF Nearest THEN node ELSE NoNode

\* _search<Path, Nearest>(path) from node on, which the caller holds
RECURSIVE _search(_, _, _, _)
_search(T, node, path, Nearest) ==
    IF path = << >> THEN [T |-> T, node |-> node]
    ELSE IF Head(path) = EmptyId THEN _search(T, node, Tail(path), Nearest)
    ELSE LET r == trie_try_child(T, node, Head(path))
         IN  IF r.node = NoNode
               THEN IF search_miss(Nearest, node) = NoNode
                      THEN [T |-> release(r.T, node), node |-> NoNode]
                      ELSE [T |-> r.T, node |-> search_miss(Nearest, node)]
               ELSE _search(release(r.T, node), r.node, Tail(path), Nearest)

\* the result of a call is let go of, unless it is null
let_go(r) == IF r.node = NoNode THEN r.T ELSE release(r.T, r.node)

\* root->get(path); the caller holds the result
topic_get(path) ==
    LET r == get(acquire(trie, Root), Root, path)
    IN  /\ searched.by = "none"
        /\ r.node # NoNode
        /\ trie' = r.T
        /\ searched' = [by |-> "get", at |-> Root, path |-> path, node |-> r.node]
        /\ UNCHANGED nonTrieVars

\* root->find(path); the caller holds the result unless it is null
topic_find(path) ==
    LET r == _search(acquire(trie, Root), Root, path, FALSE)
    IN  /\ searched.by = "none"
        /\ trie' = r.T
        /\ searched' = [by |-> "find", at |-> Root, path |-> path, node |-> r.node]
        /\ UNCHANGED nonTrieVars

\* root->nearest(path); the caller holds the result
topic_nearest(path) ==
    LET r == _search(acquire(trie, Root), Root, path, TRUE)
    IN  /\ searched.by = "none"
        /\ trie' = r.T
        /\ searched' = [by |-> "nearest", at |-> Root, path |-> path, node |-> r.node]
        /\ UNCHANGED nonTrieVars

\* n->try_child(id) on a node somebody holds
topic_try_child(n, id) ==
    /\ searched.by = "none"
    /\ trie.live[n]
    /\ trie' = trie_try_child(trie, n, id).T
    /\ searched' = [by |-> "try_child", at |-> n, path |-> <<id>>,
                    node |-> trie_try_child(trie, n, id).node]
    /\ UNCHANGED nonTrieVars

\* topic(std::move(node)): the pointer get() returned becomes a topic that
\* is kept
topic_keep ==
    /\ searched.by = "get"
    /\ ~trie.topics[searched.node]
    /\ trie' = [trie EXCEPT !.topics[searched.node] = TRUE]
    /\ searched' = NoSearched
    /\ UNCHANGED nonTrieVars

\* the pointer a call returned goes out of scope
topic_let_go ==
    /\ searched.by # "none"
    /\ trie' = let_go([T |-> trie, node |-> searched.node])
    /\ searched' = NoSearched
    /\ UNCHANGED nonTrieVars

\* the topic kept for node n is destroyed
topic_release(n) ==
    /\ searched.by = "none"
    /\ n # Root
    /\ trie.topics[n]
    /\ trie' = release([trie EXCEPT !.topics[n] = FALSE], n)
    /\ UNCHANGED <<searched, nonTrieVars>>

\* topic.serve(): the service made keeps the topic it serves; the tree has
\* one service at a time
trie_serve(n) ==
    /\ searched.by = "none"
    /\ trie.topics[n]
    /\ trie.service = NoNode
    /\ trie' = acquire([trie EXCEPT !.service = n], n)
    /\ UNCHANGED <<searched, nonTrieVars>>

\* the last handle of the service on n is dropped
trie_unserve(n) ==
    /\ searched.by = "none"
    /\ trie.service = n
    /\ trie' = release([trie EXCEPT !.service = NoNode], n)
    /\ UNCHANGED <<searched, nonTrieVars>>

\* topic.subscribe(): the subscription made keeps the topic it is on; the
\* tree has one subscription at a time
trie_subscribe(n) ==
    /\ searched.by = "none"
    /\ trie.topics[n]
    /\ trie.subscription = NoNode
    /\ trie' = acquire([trie EXCEPT !.subscription = n], n)
    /\ UNCHANGED <<searched, nonTrieVars>>

\* the handle of the subscription on n is dropped
trie_unsubscribe(n) ==
    /\ searched.by = "none"
    /\ trie.subscription = n
    /\ trie' = release([trie EXCEPT !.subscription = NoNode], n)
    /\ UNCHANGED <<searched, nonTrieVars>>

TrieNext ==
    \/ \E path \in TriePaths : topic_get(path)
    \/ \E path \in TriePaths : topic_find(path)
    \/ \E path \in TriePaths : topic_nearest(path)
    \/ \E n \in Nodes, id \in TrieIds : topic_try_child(n, id)
    \/ topic_keep
    \/ topic_let_go
    \/ \E n \in Nodes : topic_release(n)
    \/ \E n \in Nodes : trie_serve(n)
    \/ \E n \in Nodes : trie_unserve(n)
    \/ \E n \in Nodes : trie_subscribe(n)
    \/ \E n \in Nodes : trie_unsubscribe(n)

\* trie_::create: a root without children, held by the process
TrieInit ==
    /\ x = 0
    /\ gpc = [t \in GuardThreads |-> "idle"]
    /\ pass = [s \in Slots |-> 0]
    /\ weak = [s \in Slots |-> NoObj]
    /\ uses = [o \in Objs |-> 0]
    /\ life = [o \in Objs |-> "unborn"]
    /\ nextObj = 1
    /\ pc = [t \in Threads |-> "idle"]
    /\ tslot = [t \in Threads |-> ServiceSlot]
    /\ tref = [t \in Threads |-> NoObj]
    /\ tflag = [t \in Threads |-> FALSE]
    /\ held = [t \in Threads |-> NoObj]
    /\ _map = [k \in Keys |-> Absent]
    /\ _mtx = [shared |-> {}, unique |-> {}]
    /\ nuses = [n \in Nodes |-> 0]
    /\ nkey = [n \in Nodes |-> 0]
    /\ nextNode = 1
    /\ kpc = [t \in TableThreads |-> "idle"]
    /\ kkey = [t \in TableThreads |-> 1]
    /\ knode = [t \in TableThreads |-> NoNode]
    /\ chain = 1
    /\ pubHeld = {}
    /\ pubSeen = [o \in Objs |-> 0]
    /\ services = [n \in TopicNodes |-> NoService]
    /\ request = NoRequest
    /\ issued = NoIssue
    /\ subscribers = << >>
    /\ event = NoEvent
    /\ published = NoPublish
    /\ relayed = NoRelay
    /\ converted = NoConverted
    /\ trie = [NoTrie EXCEPT !.live[Root] = TRUE, !.uses[Root] = 1,
                             !.topics[Root] = TRUE]
    /\ searched = NoSearched
    /\ id_counter = 1
    /\ ids = [t \in Threads |-> << >>]
    /\ promise = [c \in Clients |-> NoPromise]
    /\ responded = NoResponded
    /\ view = NoView
    /\ bound = NoBound
    /\ visited = NoVisited
    /\ cascade = NoCascade
    /\ gop = [t \in GuardThreads |-> "none"]
    /\ auto = NoAuto
    /\ nservice = [n \in Nodes |-> FALSE]

SpecTrie == TrieInit /\ [][TrieNext]_vars

\* the live children of node n
ChildNodes(T, n) == {c \in Nodes : T.live[c] /\ T._parent[c] = n}

\* node n is held: by a live child, a service or subscription on it, a
\* topic, or the pointer a call has just returned
IsHeld(T, n) ==
    \/ T.topics[n] \/ T.service = n \/ T.subscription = n
    \/ ChildNodes(T, n) # {}
    \/ searched.by # "none" /\ searched.node = n

\* C19: a node is alive exactly as long as a live child, a service or a
\* subscription on it, or a topic or pointer holds it; and try_child(id) on
\* a live node yields a node exactly when the node has a live child of that
\* id, so that it yields null once that child is destroyed.
C19_NodeLifetime ==
    /\ \A n \in Nodes : trie.live[n] <=> IsHeld(trie, n)
    /\ \A n \in Nodes : trie.live[n] =>
          \A id \in TrieIds :
              LET found == trie_try_child(trie, n, id).node
              IN  IF \E c \in ChildNodes(trie, n) : trie.id[c] = id
                    THEN found \in ChildNodes(trie, n) /\ trie.id[found] = id
                    ELSE found = NoNode

\* a node is kept alive by its service alone, and its table keeps the
\* expired entry of a child that was destroyed
C19_Witness ==
    \E n \in Nodes :
        /\ trie.live[n] /\ trie.service = n
        /\ ~trie.topics[n] /\ trie.subscription # n /\ ChildNodes(trie, n) = {}
        /\ searched.by = "none"
        /\ \E id \in TrieIds : trie._children[n][id] = Expired

\* the ids on the way from the root to live node n
RECURSIVE PathOf(_, _)
PathOf(T, n) ==
    IF T._parent[n] = NoNode THEN << >>
    ELSE Append(PathOf(T, T._parent[n]), T.id[n])

\* the ids of a path that are not empty
Ids(path) == SelectSeq(path, LAMBDA a : a # EmptyId)

\* the live nodes that stand on a prefix of path
OnPath(T, path) ==
    {n \in Nodes : /\ T.live[n]
                   /\ Len(PathOf(T, n)) <= Len(Ids(path))
                   /\ PathOf(T, n) = SubSeq(Ids(path), 1, Len(PathOf(T, n)))}

\* tree T with one more pointer to node n, and as it was when n is null
Returned(T, n) == IF n = NoNode THEN T ELSE acquire(T, n)

\* C20: get(path) returns the node of the whole path, which exists from
\* then on with every node above it; find(path) returns that node when it
\* exists and null when a segment is missing; nearest(path) returns the
\* deepest node that exists along the path; and find() and nearest() leave
\* every node and every child table as they were, but for the count of the
\* pointer they return.
C20_GetFindNearest ==
    [][ /\ searched'.by = "get" =>
              /\ searched'.node \in OnPath(trie', searched'.path)
              /\ PathOf(trie', searched'.node) = Ids(searched'.path)
              /\ \A k \in 0..Len(Ids(searched'.path)) :
                    \E n \in OnPath(trie', searched'.path) :
                        Len(PathOf(trie', n)) = k
        /\ searched'.by = "find" =>
              /\ trie' = Returned(trie, searched'.node)
              /\ IF \E n \in OnPath(trie, searched'.path) :
                        PathOf(trie, n) = Ids(searched'.path)
                   THEN /\ searched'.node \in OnPath(trie, searched'.path)
                        /\ PathOf(trie, searched'.node) = Ids(searched'.path)
                   ELSE searched'.node = NoNode
        /\ searched'.by = "nearest" =>
              /\ trie' = Returned(trie, searched'.node)
              /\ searched'.node \in OnPath(trie, searched'.path)
              /\ \A n \in OnPath(trie, searched'.path) :
                    Len(PathOf(trie, n)) <= Len(PathOf(trie, searched'.node)) ]_vars

\* nearest() stopped at a node below the root and above the end of the path,
\* where find() of the same path yields null
C20_Witness ==
    /\ searched.by = "nearest"
    /\ searched.node # Root
    /\ Len(PathOf(trie, searched.node)) < Len(Ids(searched.path))

(***************************************************************************)
(* make_link: an alias in the child table of a node                        *)
(***************************************************************************)

\* the root of a second tree, made by trie_::create and kept by a topic
Other == 2

\* try_insert leaves the table alone
try_insert_never(entry) == FALSE

try_insert_refused(entry) == entry \notin {Absent, Expired}

\* n->make_link(id, destination), the caller holding a topic of n and one of
\* the destination; the parameter is a pointer of its own until the call is
\* over; an alias of a node to itself is left out
make_link(n, id, destination) ==
    LET refused == try_insert_refused(trie._children[n][id])
    IN  /\ searched.by = "none"
        /\ trie.topics[n]
        /\ n # destination
        /\ trie.topics[destination]
        /\ trie' = acquire(IF refused THEN trie
                           ELSE [trie EXCEPT !._children[n][id] = destination],
                           destination)
        /\ searched' = [by |-> IF refused THEN "make_link_refused" ELSE "make_link",
                        at |-> n, path |-> <<id>>, node |-> destination]
        /\ UNCHANGED nonTrieVars

LinkNext ==
    \/ \E id \in TrieIds : topic_get(<<id>>)
    \/ topic_keep
    \/ topic_let_go
    \/ \E n \in Nodes : topic_release(n)
    \/ \E n, destination \in Nodes, id \in TrieIds : make_link(n, id, destination)

\* two trees: the root, and another root that a topic keeps
LinkInit ==
    /\ x = 0
    /\ gpc = [t \in GuardThreads |-> "idle"]
    /\ pass = [s \in Slots |-> 0]
    /\ weak = [s \in Slots |-> NoObj]
    /\ uses = [o \in Objs |-> 0]
    /\ life = [o \in Objs |-> "unborn"]
    /\ nextObj = 1
    /\ pc = [t \in Threads |-> "idle"]
    /\ tslot = [t \in Threads |-> ServiceSlot]
    /\ tref = [t \in Threads |-> NoObj]
    /\ tflag = [t \in Threads |-> FALSE]
    /\ held = [t \in Threads |-> NoObj]
    /\ _map = [k \in Keys |-> Absent]
    /\ _mtx = [shared |-> {}, unique |-> {}]
    /\ nuses = [n \in Nodes |-> 0]
    /\ nkey = [n \in Nodes |-> 0]
    /\ nextNode = 1
    /\ kpc = [t \in TableThreads |-> "idle"]
    /\ kkey = [t \in TableThreads |-> 1]
    /\ knode = [t \in TableThreads |-> NoNode]
    /\ chain = 1
    /\ pubHeld = {}
    /\ pubSeen = [o \in Objs |-> 0]
    /\ services = [n \in TopicNodes |-> NoService]
    /\ request = NoRequest
    /\ issued = NoIssue
    /\ subscribers = << >>
    /\ event = NoEvent
    /\ published = NoPublish
    /\ relayed = NoRelay
    /\ converted = NoConverted
    /\ trie = [NoTrie EXCEPT !.live[Root] = TRUE, !.uses[Root] = 1,
                             !.topics[Root] = TRUE,
                             !.live[Other] = TRUE, !.uses[Other] = 1,
                             !.topics[Other] = TRUE]
    /\ searched = NoSearched
    /\ id_counter = 1
    /\ ids = [t \in Threads |-> << >>]
    /\ promise = [c \in Clients |-> NoPromise]
    /\ responded = NoResponded
    /\ view = NoView
    /\ bound = NoBound
    /\ visited = NoVisited
    /\ cascade = NoCascade
    /\ gop = [t \in GuardThreads |-> "none"]
    /\ auto = NoAuto
    /\ nservice = [n \in Nodes |-> FALSE]

SpecLink == LinkInit /\ [][LinkNext]_vars

\* the table of node n maps id to a child that is alive
Mapped(T, n, id) ==
    T._children[n][id] \in Nodes /\ T.live[T._children[n][id]]

\* C21: make_link(id, node) on an id that is mapped to a live child returns
\* false and leaves every child table as it was; on any other id it returns
\* true and the table maps id to node; and an id that a table maps to a
\* node is found by try_child as that node while the node is alive and as
\* null from the step on in which the node is destroyed.
C21_MakeLink ==
    [][ /\ searched'.by \in {"make_link", "make_link_refused"} =>
              LET n == searched'.at
                  id == searched'.path[1]
              IN  IF Mapped(trie, n, id)
                    THEN /\ searched'.by = "make_link_refused"
                         /\ trie'._children = trie._children
                    ELSE /\ searched'.by = "make_link"
                         /\ trie'._children =
                               [trie._children EXCEPT ![n][id] = searched'.node]
                         /\ trie_try_child(trie', n, id).node = searched'.node
        /\ \A n \in Nodes, id \in TrieIds :
              trie._children[n][id] \in Nodes /\ trie'.live[n] =>
                  /\ trie.live[trie._children[n][id]]
                  /\ trie_try_child(trie', n, id).node =
                        IF trie'.live[trie._children[n][id]]
                          THEN trie._children[n][id] ELSE NoNode ]_vars

\* make_link has just installed an alias to a node that is no child of the
\* node whose table holds it
C21_Witness ==
    /\ searched.by = "make_link"
    /\ trie._parent[searched.node] # searched.at
    /\ searched.node # searched.at
    /\ trie._children[searched.at][searched.path[1]] = searched.node

(***************************************************************************)
(* message ids                                                             *)
(***************************************************************************)

\* a counter that is read but not advanced
post_increment_lost(counter) == counter

\* id_counter<message_base>++ on the std::atomic: the value stored
post_increment(counter) == counter + 1

\* message_base::message_base on thread t: id(generate_unique_id()), one
\* atomic read-modify-write of the counter
message_base(t) ==
    /\ id_counter <= MaxMessages
    /\ ids' = [ids EXCEPT ![t] = Append(@, id_counter)]
    /\ id_counter' = post_increment(id_counter)
    /\ UNCHANGED nonMsgVars

MsgNext == \E t \in Threads : message_base(t)

MsgInit ==
    /\ x = 0
    /\ gpc = [t \in GuardThreads |-> "idle"]
    /\ pass = [s \in Slots |-> 0]
    /\ weak = [s \in Slots |-> NoObj]
    /\ uses = [o \in Objs |-> 0]
    /\ life = [o \in Objs |-> "unborn"]
    /\ nextObj = 1
    /\ pc = [t \in Threads |-> "idle"]
    /\ tslot = [t \in Threads |-> ServiceSlot]
    /\ tref = [t \in Threads |-> NoObj]
    /\ tflag = [t \in Threads |-> FALSE]
    /\ held = [t \in Threads |-> NoObj]
    /\ _map = [k \in Keys |-> Absent]
    /\ _mtx = [shared |-> {}, unique |-> {}]
    /\ nuses = [n \in Nodes |-> 0]
    /\ nkey = [n \in Nodes |-> 0]
    /\ nextNode = 1
    /\ kpc = [t \in TableThreads |-> "idle"]
    /\ kkey = [t \in TableThreads |-> 1]
    /\ knode = [t \in TableThreads |-> NoNode]
    /\ chain = 1
    /\ pubHeld = {}
    /\ pubSeen = [o \in Objs |-> 0]
    /\ services = [n \in TopicNodes |-> NoService]
    /\ request = NoRequest
    /\ issued = NoIssue
    /\ subscribers = << >>
    /\ event = NoEvent
    /\ published = NoPublish
    /\ relayed = NoRelay
    /\ converted = NoConverted
    /\ trie = NoTrie
    /\ searched = NoSearched
    /\ id_counter = 1
    /\ ids = [t \in Threads |-> << >>]
    /\ promise = [c \in Clients |-> NoPromise]
    /\ responded = NoResponded
    /\ view = NoView
    /\ bound = NoBound
    /\ visited = NoVisited
    /\ cascade = NoCascade
    /\ gop = [t \in GuardThreads |-> "none"]
    /\ auto = NoAuto
    /\ nservice = [n \in Nodes |-> FALSE]

SpecMsg == MsgInit /\ [][MsgNext]_vars

\* C22: the ids of any two messages differ, whichever threads constructed
\* them, and the ids of the messages one thread constructed grow strictly
\* in the order of their construction.
C22_UniqueIds ==
    /\ \A t, u \in Threads :
          \A i \in 1..Len(ids[t]), j \in 1..Len(ids[u]) :
              (t # u \/ i # j) => ids[t][i] # ids[u][j]
    /\ \A t \in Threads :
          \A i, j \in 1..Len(ids[t]) : i < j => ids[t][i] < ids[t][j]

\* two threads have each constructed two messages, their constructions
\* interleaved
C22_Witness ==
    \E t, u \in Threads :
        /\ t # u
        /\ Len(ids[t]) = 2 /\ Len(ids[u]) = 2
        /\ ids[t][1] < ids[u][1] /\ ids[u][1] < ids[t][2]

(***************************************************************************)
(* client_promise: a client bound to a std::future                         *)
(***************************************************************************)

\* what a response carries: a status, and a payload that is empty, a T or
\* a value of another type
Responses ==
    [status : {"OK", "NotFound"}, payload : {"void", "T1", "T2", "U1"}]

\* a promise that can be set over and over
already_satisfied_never(p) == FALSE

\* std::promise::set_value / set_exception throw future_error
\* (promise_already_satisfied) on a shared state that is ready
already_satisfied(p) == p.state # "unset"

\* client_promise_base::_set: a future_error is caught and dropped
_set(p, state, value) ==
    IF already_satisfied(p) THEN p
    ELSE [p EXCEPT !.state = state, !.value = value, !.completions = @ + 1]

\* std::any_cast<T>(std::move(_value)) throws bad_any_cast unless the
\* payload is a T
bad_any_cast(r) == r.payload \notin {"T1", "T2"}

\* the response function of client_promise<T>
func_T(p, r) ==
    IF bad_any_cast(r) THEN _set(p, "exception", "bad_any_cast")
    ELSE _set(p, "value", r.payload)

\* the response function of client_promise<response>
func_response(p, r) == _set(p, "value", r)

\* request::async<Response>(): a client_promise is made and its future
\* handed out
async(c, kind) ==
    /\ promise[c].kind = "none"
    /\ promise' = [promise EXCEPT ![c] = [NoPromise EXCEPT !.kind = kind]]
    /\ responded' = NoResponded
    /\ UNCHANGED nonFutureVars

\* client::respond(topic, status, value) on client c: func(response(...));
\* no exception leaves the response function
client_respond(c, r) ==
    /\ promise[c].kind # "none"
    /\ promise' = [promise EXCEPT ![c] =
                      IF @.kind = "response" THEN func_response(@, r)
                      ELSE func_T(@, r)]
    /\ responded' = [to |-> c, thrown |-> FALSE]
    /\ UNCHANGED nonFutureVars

FutureNext ==
    \/ \E c \in Clients, kind \in {"response", "T"} : async(c, kind)
    \/ \E c \in Clients, r \in Responses : client_respond(c, r)

FutureInit ==
    /\ x = 0
    /\ gpc = [t \in GuardThreads |-> "idle"]
    /\ pass = [s \in Slots |-> 0]
    /\ weak = [s \in Slots |-> NoObj]
    /\ uses = [o \in Objs |-> 0]
    /\ life = [o \in Objs |-> "unborn"]
    /\ nextObj = 1
    /\ pc = [t \in Threads |-> "idle"]
    /\ tslot = [t \in Threads |-> ServiceSlot]
    /\ tref = [t \in Threads |-> NoObj]
    /\ tflag = [t \in Threads |-> FALSE]
    /\ held = [t \in Threads |-> NoObj]
    /\ _map = [k \in Keys |-> Absent]
    /\ _mtx = [shared |-> {}, unique |-> {}]
    /\ nuses = [n \in Nodes |-> 0]
    /\ nkey = [n \in Nodes |-> 0]
    /\ nextNode = 1
    /\ kpc = [t \in TableThreads |-> "idle"]
    /\ kkey = [t \in TableThreads |-> 1]
    /\ knode = [t \in TableThreads |-> NoNode]
    /\ chain = 1
    /\ pubHeld = {}
    /\ pubSeen = [o \in Objs |-> 0]
    /\ services = [n \in TopicNodes |-> NoService]
    /\ request = NoRequest
    /\ issued = NoIssue
    /\ subscribers = << >>
    /\ event = NoEvent
    /\ published = NoPublish
    /\ relayed = NoRelay
    /\ converted = NoConverted
    /\ trie = NoTrie
    /\ searched = NoSearched
    /\ id_counter = 1
    /\ ids = [t \in Threads |-> << >>]
    /\ promise = [c \in Clients |-> NoPromise]
    /\ responded = NoResponded
    /\ view = NoView
    /\ bound = NoBound
    /\ visited = NoVisited
    /\ cascade = NoCascade
    /\ gop = [t \in GuardThreads |-> "none"]
    /\ auto = NoAuto
    /\ nservice = [n \in Nodes |-> FALSE]

SpecFuture == FutureInit /\ [][FutureNext]_vars

\* what the first response r sets the future of a client of kind k to
Completed(k, r) ==
    IF k = "response" THEN [state |-> "value", value |-> r]
    ELSE IF r.payload \in {"T1", "T2"} THEN [state |-> "value", value |-> r.payload]
    ELSE [state |-> "exception", value |-> "bad_any_cast"]

topic_get_at(n, path) ==
    LET r == get(acquire(trie, n), n, path)
    IN  /\ searched.by = "none"
        /\ trie.topics[n]
        /\ r.node # NoNode
        /\ trie' = r.T
        /\ searched' = [by |-> "get", at |-> n, path |-> path, node |-> r.node]
        /\ UNCHANGED nonTrieVars

PathNext ==
    \/ \E n \in Nodes, path \in TriePaths : topic_get_at(n, path)
    \/ topic_keep
    \/ topic_let_go
    \/ \E n \in Nodes : topic_release(n)

\* trie_::create(id): a root of any id, the empty one included
PathInit ==
    /\ x = 0
    /\ gpc = [t \in GuardThreads |-> "idle"]
    /\ pass = [s \in Slots |-> 0]
    /\ weak = [s \in Slots |-> NoObj]
    /\ uses = [o \in Objs |-> 0]
    /\ life = [o \in Objs |-> "unborn"]
    /\ nextObj = 1
    /\ pc = [t \in Threads |-> "idle"]
    /\ tslot = [t \in Threads |-> ServiceSlot]
    /\ tref = [t \in Threads |-> NoObj]
    /\ tflag = [t \in Threads |-> FALSE]
    /\ held = [t \in Threads |-> NoObj]
    /\ _map = [k \in Keys |-> Absent]
    /\ _mtx = [shared |-> {}, unique |-> {}]
    /\ nuses = [n \in Nodes |-> 0]
    /\ nkey = [n \in Nodes |-> 0]
    /\ nextNode = 1
    /\ kpc = [t \in TableThreads |-> "idle"]
    /\ kkey = [t \in TableThreads |-> 1]
    /\ knode = [t \in TableThreads |-> NoNode]
    /\ chain = 1
    /\ pubHeld = {}
    /\ pubSeen = [o \in Objs |-> 0]
    /\ services = [n \in TopicNodes |-> NoService]
    /\ request = NoRequest
    /\ issued = NoIssue
    /\ subscribers = << >>
    /\ event = NoEvent
    /\ published = NoPublish
    /\ relayed = NoRelay
    /\ converted = NoConverted
    /\ \E id \in TrieIds \cup {EmptyId} :
          trie = [NoTrie EXCEPT !.live[Root] = TRUE, !.uses[Root] = 1,
                                !.topics[Root] = TRUE, !.id[Root] = id,
                                !._path[Root] = str(id)]
    /\ searched = NoSearched
    /\ id_counter = 1
    /\ ids = [t \in Threads |-> << >>]
    /\ promise = [c \in Clients |-> NoPromise]
    /\ responded = NoResponded
    /\ view = NoView
    /\ bound = NoBound
    /\ visited = NoVisited
    /\ cascade = NoCascade
    /\ gop = [t \in GuardThreads |-> "none"]
    /\ auto = NoAuto
    /\ nservice = [n \in Nodes |-> FALSE]

SpecPath == PathInit /\ [][PathNext]_vars

\* base and the ids of a path, those that are not empty, with one
\* separator between each two
RECURSIVE Joined(_, _)
Joined(base, segments) ==
    IF segments = << >> THEN base
    ELSE Joined(IF base = << >> THEN str(Head(segments))
                ELSE base \o <<separator>> \o str(Head(segments)),
                Tail(segments))

Delimiter == "/"

\* the strings of up to MaxLength characters, a string being the sequence
\* of its characters
Strings ==
    UNION {[1..n -> {Delimiter, "a", "b"}] : n \in 0..MaxLength}

\* if (p < _eos && *p == Delimiter) ++p
skip_one(s, p) ==
    IF p < Len(s) /\ s[p + 1] = Delimiter THEN p + 1 ELSE p

\* while (p < _eos && *p == Delimiter) ++p
RECURSIVE skip(_, _)
skip(s, p) ==
    IF p < Len(s) /\ s[p + 1] = Delimiter THEN skip(s, p + 1) ELSE p

\* while (e < _eos && *e != Delimiter) ++e
RECURSIVE scan(_, _)
scan(s, e) ==
    IF e < Len(s) /\ s[e + 1] # Delimiter THEN scan(s, e + 1) ELSE e

\* a _consume that passes over one delimiter at most
_consume_one(s, p) ==
    [data |-> skip_one(s, p), length |-> scan(s, skip_one(s, p)) - skip_one(s, p)]

\* iterator::_consume(p) on the string s: the string_view (p, e - p)
_consume(s, p) ==
    [data |-> skip(s, p), length |-> scan(s, skip(s, p)) - skip(s, p)]

\* it != end(): _sub.data() differs from that of iterator(string, end_tag)
not_end(v) == v._sub.data # Len(v.string)

\* one round of for (auto part : topic_view(s)): part = *it, then ++it
for_part ==
    /\ not_end(view)
    /\ view' = [view EXCEPT
          !.yielded = Append(@, SubSeq(view.string, view._sub.data + 1,
                                       view._sub.data + view._sub.length)),
          !._sub = _consume(view.string, view._sub.data + view._sub.length)]
    /\ UNCHANGED nonViewVars

ViewNext == for_part

\* topic_view(s).begin() for any string s
ViewInit ==
    /\ x = 0
    /\ gpc = [t \in GuardThreads |-> "idle"]
    /\ pass = [s \in Slots |-> 0]
    /\ weak = [s \in Slots |-> NoObj]
    /\ uses = [o \in Objs |-> 0]
    /\ life = [o \in Objs |-> "unborn"]
    /\ nextObj = 1
    /\ pc = [t \in Threads |-> "idle"]
    /\ tslot = [t \in Threads |-> ServiceSlot]
    /\ tref = [t \in Threads |-> NoObj]
    /\ tflag = [t \in Threads |-> FALSE]
    /\ held = [t \in Threads |-> NoObj]
    /\ _map = [k \in Keys |-> Absent]
    /\ _mtx = [shared |-> {}, unique |-> {}]
    /\ nuses = [n \in Nodes |-> 0]
    /\ nkey = [n \in Nodes |-> 0]
    /\ nextNode = 1
    /\ kpc = [t \in TableThreads |-> "idle"]
    /\ kkey = [t \in TableThreads |-> 1]
    /\ knode = [t \in TableThreads |-> NoNode]
    /\ chain = 1
    /\ pubHeld = {}
    /\ pubSeen = [o \in Objs |-> 0]
    /\ services = [n \in TopicNodes |-> NoService]
    /\ request = NoRequest
    /\ issued = NoIssue
    /\ subscribers = << >>
    /\ event = NoEvent
    /\ published = NoPublish
    /\ relayed = NoRelay
    /\ converted = NoConverted
    /\ trie = NoTrie
    /\ searched = NoSearched
    /\ id_counter = 1
    /\ ids = [t \in Threads |-> << >>]
    /\ promise = [c \in Clients |-> NoPromise]
    /\ responded = NoResponded
    /\ view \in {[string |-> s, _sub |-> _consume(s, 0), yielded |-> << >>] :
                    s \in Strings}
    /\ bound = NoBound
    /\ visited = NoVisited
    /\ cascade = NoCascade
    /\ gop = [t \in GuardThreads |-> "none"]
    /\ auto = NoAuto
    /\ nservice = [n \in Nodes |-> FALSE]

SpecView == ViewInit /\ [][ViewNext]_vars

\* the length of the longest prefix of s without a delimiter
RECURSIVE Run(_)
Run(s) == IF s = << >> \/ Head(s) = Delimiter THEN 0 ELSE 1 + Run(Tail(s))

\* s split on the delimiter, the empty segments dropped
RECURSIVE Split(_)
Split(s) ==
    IF s = << >> THEN << >>
    ELSE IF Head(s) = Delimiter THEN Split(Tail(s))
    ELSE <<SubSeq(s, 1, Run(s))>> \o Split(SubSeq(s, Run(s) + 1, Len(s)))

\* C25: at every point of an iteration over topic_view(s) the segments
\* yielded so far are the first ones of s split on the separator with the
\* empty segments dropped; the iterator equals end() exactly when all of
\* them have been yielded; and until then it stands on the next of them.
C25_Segments ==
    /\ Len(view.yielded) <= Len(Split(view.string))
    /\ view.yielded = SubSeq(Split(view.string), 1, Len(view.yielded))
    /\ ~not_end(view) <=> view.yielded = Split(view.string)
    /\ not_end(view) =>
          SubSeq(view.string, view._sub.data + 1,
                 view._sub.data + view._sub.length)
            = Split(view.string)[Len(view.yielded) + 1]

\* the iteration over "/a//b/" has reached end() after two segments
C25_Witness ==
    /\ view.string = <<"/", "a", "/", "/", "b", "/">>
    /\ ~not_end(view)
    /\ view.yielded = << <<"a">>, <<"b">> >>

(***************************************************************************)
(* bind_service: a service function bound to void T::post_int(int)         *)
(***************************************************************************)

\* what a request carries: nothing, an int, or a value of another type
Payloads == {"void", "int13", "int7", "string"}

\* bind_service(std::weak_ptr<T>, void (T::*)(Params...), method_set,
\* status default_response_status = statuses::OK), as it is declared
default_response_status == "OK"

\* detail::respond_to_misc_method
respond_to_misc_method(method, allowed) ==
    IF method = "OPTIONS" THEN "OK"
    ELSE IF method \in allowed THEN "NotImplemented"
    ELSE "MethodNotAllowed"

\* msg_decompose<int>::pass(request): move_as<int>() throws bad_any_cast
\* unless the payload is an int
pass_throws(payload) == payload \notin {"int13", "int7"}

\* the function bind_service returns, called with a request of the given
\* method and payload
bound_service(method, payload) ==
    /\ bound.instance # "none"
    /\ Len(bound.called) < MaxCalls
    /\ bound' =
          IF bound.instance = "expired"
            THEN [bound EXCEPT !.method = method, !.payload = payload,
                               !.response = "Gone"]
          ELSE IF method \notin bound.allowed
            THEN [bound EXCEPT !.method = method, !.payload = payload,
                               !.response = respond_to_misc_method(method, bound.allowed)]
          ELSE IF pass_throws(payload)
            THEN [bound EXCEPT !.method = method, !.payload = payload,
                               !.response = "UnsupportedMediaType"]
          ELSE [bound EXCEPT !.method = method, !.payload = payload,
                             !.called = Append(@, payload),
                             !.response = default_response_status]
    /\ UNCHANGED nonBindVars

\* the last shared_ptr to the object the function calls is dropped
instance_drop ==
    /\ bound.instance = "alive"
    /\ bound' = [bound EXCEPT !.instance = "expired"]
    /\ UNCHANGED nonBindVars

BindNext ==
    \/ \E method \in {"POST", "PUT", "GET", "OPTIONS"}, payload \in Payloads :
          bound_service(method, payload)
    \/ instance_drop

\* bind_service(instance, &T::post_int, methods) with no status given
BindInit ==
    /\ x = 0
    /\ gpc = [t \in GuardThreads |-> "idle"]
    /\ pass = [s \in Slots |-> 0]
    /\ weak = [s \in Slots |-> NoObj]
    /\ uses = [o \in Objs |-> 0]
    /\ life = [o \in Objs |-> "unborn"]
    /\ nextObj = 1
    /\ pc = [t \in Threads |-> "idle"]
    /\ tslot = [t \in Threads |-> ServiceSlot]
    /\ tref = [t \in Threads |-> NoObj]
    /\ tflag = [t \in Threads |-> FALSE]
    /\ held = [t \in Threads |-> NoObj]
    /\ _map = [k \in Keys |-> Absent]
    /\ _mtx = [shared |-> {}, unique |-> {}]
    /\ nuses = [n \in Nodes |-> 0]
    /\ nkey = [n \in Nodes |-> 0]
    /\ nextNode = 1
    /\ kpc = [t \in TableThreads |-> "idle"]
    /\ kkey = [t \in TableThreads |-> 1]
    /\ knode = [t \in TableThreads |-> NoNode]
    /\ chain = 1
    /\ pubHeld = {}
    /\ pubSeen = [o \in Objs |-> 0]
    /\ services = [n \in TopicNodes |-> NoService]
    /\ request = NoRequest
    /\ issued = NoIssue
    /\ subscribers = << >>
    /\ event = NoEvent
    /\ published = NoPublish
    /\ relayed = NoRelay
    /\ converted = NoConverted
    /\ trie = NoTrie
    /\ searched = NoSearched
    /\ id_counter = 1
    /\ ids = [t \in Threads |-> << >>]
    /\ promise = [c \in Clients |-> NoPromise]
    /\ responded = NoResponded
    /\ view = NoView
    /\ bound \in {[NoBound EXCEPT !.instance = "alive", !.allowed = a] :
                     a \in {{"POST"}, {"POST", "PUT"}}}
    /\ visited = NoVisited
    /\ cascade = NoCascade
    /\ gop = [t \in GuardThreads |-> "none"]
    /\ auto = NoAuto
    /\ nservice = [n \in Nodes |-> FALSE]

SpecBind == BindInit /\ [][BindNext]_vars

\* C26: a POST with an int payload to the bound function of a live object
\* calls the method with that int and the client receives NoContent; a POST
\* with an empty payload calls nothing and the client receives
\* UnsupportedMediaType.
C26_BoundPost ==
    [][ \A payload \in Payloads :
            (bound.instance = "alive" /\ bound_service("POST", payload)) =>
                /\ payload \in {"int13", "int7"} =>
                      /\ bound'.called = Append(bound.called, payload)
                      /\ bound'.response = "NoContent"
                /\ payload = "void" =>
                      /\ bound'.called = bound.called
                      /\ bound'.response = "UnsupportedMediaType" ]_vars

(***************************************************************************)
(* visit_resources: a walk over the descendants of a topic                 *)
(***************************************************************************)

\* a resource is named by the ids on the way to it from the topic visited
Resources ==
    UNION {[1..n -> Keys] : n \in 0..Depth}

\* the trees: with a resource, every resource above it
Trees ==
    {t \in SUBSET Resources :
        /\ << >> \in t
        /\ \A r \in t : r # << >> => SubSeq(r, 1, Len(r) - 1) \in t}

\* the live children of resource r in the order the table yields them
RECURSIVE children(_, _, _)
children(tree, r, k) ==
    IF k > NKeys THEN << >>
    ELSE (IF Append(r, k) \in tree THEN <<Append(r, k)>> ELSE << >>)
            \o children(tree, r, k + 1)

\* size_t arithmetic, with a word of 30 bits
size_modulus == 2 ^ 30

\* recursion_depth-- and recursion_depth-1 on a size_t
decrement(n) == (n + (size_modulus - 1)) % size_modulus

\* topic_::visit_resources(callback, recursion_depth, skip_this) on
\* resource r: the resources the callback is called with, in order. The
\* lambda scan holds recursion_depth by reference and is called for one
\* child after the other.
RECURSIVE visit_resources(_, _, _, _)
RECURSIVE scan_children(_, _, _)
visit_resources(tree, r, recursion_depth, skip_this) ==
    (IF skip_this THEN << >> ELSE <<r>>)
      \o (IF recursion_depth # 0
            THEN scan_children(tree, children(tree, r, 1), decrement(recursion_depth))
            ELSE << >>)

scan_children(tree, nodes, recursion_depth) ==
    IF nodes = << >> THEN << >>
    ELSE <<Head(nodes)>>
           \o (IF recursion_depth # 0
                 THEN visit_resources(tree, Head(nodes),
                                      decrement(decrement(recursion_depth)), TRUE)
                 ELSE << >>)
           \o scan_children(tree, Tail(nodes), decrement(recursion_depth))

\* topic.visit_resources(callback, recursion_depth, skip_this) on the topic
\* at the top of the tree
topic_visit_resources(recursion_depth, skip_this) ==
    /\ visited' = [visited EXCEPT
          !.done = TRUE, !.depth = recursion_depth, !.skip_this = skip_this,
          !.calls = visit_resources(visited.tree, << >>, recursion_depth, skip_this)]
    /\ UNCHANGED nonVisitVars

VisitNext ==
    \E recursion_depth \in 0..Depth, skip_this \in BOOLEAN :
        topic_visit_resources(recursion_depth, skip_this)

\* any tree of resources of up to Depth generations
VisitInit ==
    /\ x = 0
    /\ gpc = [t \in GuardThreads |-> "idle"]
    /\ pass = [s \in Slots |-> 0]
    /\ weak = [s \in Slots |-> NoObj]
    /\ uses = [o \in Objs |-> 0]
    /\ life = [o \in Objs |-> "unborn"]
    /\ nextObj = 1
    /\ pc = [t \in Threads |-> "idle"]
    /\ tslot = [t \in Threads |-> ServiceSlot]
    /\ tref = [t \in Threads |-> NoObj]
    /\ tflag = [t \in Threads |-> FALSE]
    /\ held = [t \in Threads |-> NoObj]
    /\ _map = [k \in Keys |-> Absent]
    /\ _mtx = [shared |-> {}, unique |-> {}]
    /\ nuses = [n \in Nodes |-> 0]
    /\ nkey = [n \in Nodes |-> 0]
    /\ nextNode = 1
    /\ kpc = [t \in TableThreads |-> "idle"]
    /\ kkey = [t \in TableThreads |-> 1]
    /\ knode = [t \in TableThreads |-> NoNode]
    /\ chain = 1
    /\ pubHeld = {}
    /\ pubSeen = [o \in Objs |-> 0]
    /\ services = [n \in TopicNodes |-> NoService]
    /\ request = NoRequest
    /\ issued = NoIssue
    /\ subscribers = << >>
    /\ event = NoEvent
    /\ published = NoPublish
    /\ relayed = NoRelay
    /\ converted = NoConverted
    /\ trie = NoTrie
    /\ searched = NoSearched
    /\ id_counter = 1
    /\ ids = [t \in Threads |-> << >>]
    /\ promise = [c \in Clients |-> NoPromise]
    /\ responded = NoResponded
    /\ view = NoView
    /\ bound = NoBound
    /\ visited \in {[NoVisited EXCEPT !.tree = t] : t \in Trees}
    /\ cascade = NoCascade
    /\ gop = [t \in GuardThreads |-> "none"]
    /\ auto = NoAuto
    /\ nservice = [n \in Nodes |-> FALSE]

SpecVisit == VisitInit /\ [][VisitNext]_vars

\* how often the callback was called with resource r
Calls(r) == Cardinality({i \in 1..Len(visited.calls) : visited.calls[i] = r})

\* C27: visit_resources(callback, d) calls the callback once for the
\* resource it starts at, unless skip_this, once for every resource at most
\* d generations below it, and never for a deeper one.
C27_VisitDepth ==
    visited.done => \A r \in visited.tree :
        Calls(r) = IF r = << >> THEN (IF visited.skip_this THEN 0 ELSE 1)
                   ELSE IF Len(r) <= visited.depth THEN 1 ELSE 0

(***************************************************************************)
(* publish() over a tree of topics: which subscribers an event reaches     *)
(***************************************************************************)

\* the nodes that exist: those subscribed to and the nodes above them
Existing ==
    {t \in RelayTopics : \E i \in 1..Len(subscribers) :
                            is_ancestor_of(t, subscribers[i].node)}
        \cup {<< >>}

\* topic_base_<std::string>::_resolve_with: _nearest goes down the path as
\* far as try_child finds nodes
RECURSIVE _resolve_with(_, _)
_resolve_with(_nearest, subpath) ==
    IF subpath # << >> /\ Append(_nearest, Head(subpath)) \in Existing
      THEN _resolve_with(Append(_nearest, Head(subpath)), Tail(subpath))
      ELSE _nearest

\* the loop of publish() goes on whether or not the event is recursive
recursive_always(filtering) == TRUE

\* message::recursive(): filtering & flags::recursive
recursive(filtering) == "recursive" \in filtering

RECURSIVE tree_publish_loop(_, _, _)

RECURSIVE tree_publish_subs(_, _, _)

\* for (subscription &sub : node->subscribers()) if (sub.accepts(filtering))
\*     sub.func(msg), from subscriber i on, for subscribers that return
tree_publish_subs(i, node, filtering) ==
    IF i > Len(subscribers) THEN << >>
    ELSE (IF subscribers[i].node = node /\ accepts(subscribers[i].ignored, filtering)
            THEN <<[sub |-> i, of |-> "event"]>> ELSE << >>)
           \o tree_publish_subs(i + 1, node, filtering)

\* topic_::publish from the label start_resolved on, then node = node->parent()
tree_publish_body(node, filtering, f) ==
    tree_publish_subs(1, node, filtering)
        \o tree_publish_loop(_pop(node), filtering, f)

\* topic_::publish: while (recursive && node) {filtering |= flags::recursive; ...}
tree_publish_loop(node, filtering, f) ==
    IF recursive(f) /\ node # NullTopic
      THEN tree_publish_body(node, filtering \cup {"recursive"}, f)
      ELSE << >>

\* topic_::publish(msg) on the topic of path d
tree_publish(d, f) ==
    LET node == _resolve_with(<< >>, d) IN
      IF node = d
        THEN tree_publish_body(node, f \ {"recursive"}, f)
        ELSE tree_publish_loop(node, f \ {"recursive"}, f)

\* topic(n).subscribe(f, ignored), with a function that returns
TreeSubscribe(n, ignored) ==
    /\ Len(subscribers) < MaxSubs
    /\ subscribers' = Append(subscribers,
                             [node |-> n, ignored |-> ignored, throws |-> FALSE])
    /\ event' = NoEvent
    /\ published' = NoPublish
    /\ UNCHANGED nonPubVars

\* an event with filtering f is published to the topic of path d
TreePublish(d, f) ==
    /\ published.by = "none"
    /\ event' = [target |-> d, resolved |-> d \in Existing, filtering |-> f]
    /\ published' = [by |-> "topic_", trace |-> tree_publish(d, f),
                     thrown |-> FALSE, raised |-> << >>]
    /\ UNCHANGED <<nonPubVars, subscribers>>

TreeNext ==
    \/ \E n \in RelayTopics, ignored \in SubscriptionMasks : TreeSubscribe(n, ignored)
    \/ \E d \in RelayTopics, f \in SUBSET {"recursive", "logging"} : TreePublish(d, f)

\* a tree of topics without subscriptions
TreeInit ==
    /\ x = 0
    /\ gpc = [t \in GuardThreads |-> "idle"]
    /\ pass = [s \in Slots |-> 0]
    /\ weak = [s \in Slots |-> NoObj]
    /\ uses = [o \in Objs |-> 0]
    /\ life = [o \in Objs |-> "unborn"]
    /\ nextObj = 1
    /\ pc = [t \in Threads |-> "idle"]
    /\ tslot = [t \in Threads |-> ServiceSlot]
    /\ tref = [t \in Threads |-> NoObj]
    /\ tflag = [t \in Threads |-> FALSE]
    /\ held = [t \in Threads |-> NoObj]
    /\ _map = [k \in Keys |-> Absent]
    /\ _mtx = [shared |-> {}, unique |-> {}]
    /\ nuses = [n \in Nodes |-> 0]
    /\ nkey = [n \in Nodes |-> 0]
    /\ nextNode = 1
    /\ kpc = [t \in TableThreads |-> "idle"]
    /\ kkey = [t \in TableThreads |-> 1]
    /\ knode = [t \in TableThreads |-> NoNode]
    /\ chain = 1
    /\ pubHeld = {}
    /\ pubSeen = [o \in Objs |-> 0]
    /\ services = [n \in TopicNodes |-> NoService]
    /\ request = NoRequest
    /\ issued = NoIssue
    /\ subscribers = << >>
    /\ event = NoEvent
    /\ published = NoPublish
    /\ relayed = NoRelay
    /\ converted = NoConverted
    /\ trie = NoTrie
    /\ searched = NoSearched
    /\ id_counter = 1
    /\ ids = [t \in Threads |-> << >>]
    /\ promise = [c \in Clients |-> NoPromise]
    /\ responded = NoResponded
    /\ view = NoView
    /\ bound = NoBound
    /\ visited = NoVisited
    /\ cascade = NoCascade
    /\ gop = [t \in GuardThreads |-> "none"]
    /\ auto = NoAuto
    /\ nservice = [n \in Nodes |-> FALSE]

SpecTree == TreeInit /\ [][TreeNext]_vars

\* C31: publish() to topic d invokes a subscriber of topic s only if s = d,
\* or the event is recursive and s is a proper ancestor of d; subscribers
\* of siblings, of descendants and of other branches are not invoked, and an
\* event that is not recursive goes to the subscribers of d alone.
C31_OnlyAncestors ==
    published.by # "none" =>
        \A k \in 1..Len(published.trace) :
            LET s == subscribers[published.trace[k].sub].node IN
              \/ s = event.target
              \/ /\ "recursive" \in event.filtering
                 /\ s # event.target
                 /\ is_ancestor_of(s, event.target)

\* a recursive event to 1/1 went to the subscriber of 1 and not to that of
\* the sibling 1/2
C31_Witness ==
    /\ published.by # "none"
    /\ event.target = <<1, 1>>
    /\ "recursive" \in event.filtering
    /\ Len(subscribers) = 2
    /\ subscribers[1].node = <<1, 2>>
    /\ subscribers[2].node = <<1>>
    /\ published.trace = <<[sub |-> 2, of |-> "event"]>>

(***************************************************************************)
(* publish() step by step: the publish() calls a thread is inside, where   *)
(* every subscriber throws on every event it is called with.               *)
(***************************************************************************)

\* subscriptions that take the exceptions of subscribers and others that
\* do not
CascadeMasks == {default_subscription_ignore, {"logging"}}

\* the publish() calls one event is followed through
MaxStack == Depth + 2

\* publish(msg) entered on a node: the walk stands at the first subscriber
\* of the node, with the recursive bit cleared from the filtering
Entered(node, f) ==
    [node |-> node, i |-> 1, filtering |-> f \ {"recursive"}, f |-> f]

\* _publish_exception(msg, sub, exception) in topic_::publish, and the catch
\* clause of resource::publish_non_recursive: the publish() calls made for
\* the exception a subscriber of node threw on an event of filtering f
follow_up(by, node, f) ==
    IF "subscriber_exception" \in f
      THEN IF exception_parent(node) # NullNode
             THEN <<Entered(exception_parent(node),
                            {"subscriber_exception", "recursive"})>>
             ELSE << >>
      ELSE IF by = "topic_"
             THEN <<Entered(node, {"subscriber_exception"})>>
             ELSE <<Entered(node, {"subscriber_exception", "recursive"})>>

\* the innermost publish() goes one step: past a subscriber that is not
\* called, into a subscriber, which throws, on to the parent node, or out
step(by, stack) ==
    LET top  == stack[Len(stack)]
        rest == SubSeq(stack, 1, Len(stack) - 1)
    IN  IF top.i > Len(subscribers)
          THEN IF recursive(top.f) /\ parent(top.node) # NullNode
                 THEN Append(rest, [top EXCEPT !.node = parent(top.node), !.i = 1,
                                        !.filtering = @ \cup {"recursive"}])
                 ELSE rest
          ELSE IF /\ subscribers[top.i].node = top.node
                  /\ accepts(subscribers[top.i].ignored, top.filtering)
                 THEN Append(rest, [top EXCEPT !.i = @ + 1])
                        \o follow_up(by, top.node, top.f)
                 ELSE Append(rest, [top EXCEPT !.i = @ + 1])

\* subscribe() with a function that throws whatever it is called with
CascadeSubscribe(n, ignored) ==
    /\ cascade.by = "none"
    /\ Len(subscribers) < MaxSubs
    /\ subscribers' = Append(subscribers,
                             [node |-> n, ignored |-> ignored, throws |-> TRUE])
    /\ UNCHANGED <<nonPubVars, event, published>>
    /\ UNCHANGED cascade

\* topic(n).publish(msg) or resource n's publish(msg) is called
CascadePublish(by, n, f) ==
    /\ cascade.by = "none"
    /\ cascade' = [by |-> by, stack |-> <<Entered(n, f)>>, deepest |-> 1]
    /\ UNCHANGED nonCascadeVars

\* the thread inside publish() runs on
CascadeStep ==
    /\ cascade.stack # << >>
    /\ Len(step(cascade.by, cascade.stack)) <= MaxStack
    /\ cascade' = [cascade EXCEPT
          !.stack = step(cascade.by, cascade.stack),
          !.deepest = IF Len(step(cascade.by, cascade.stack)) > @
                        THEN Len(step(cascade.by, cascade.stack)) ELSE @]
    /\ UNCHANGED nonCascadeVars

CascadeNext ==
    \/ \E n \in TopicNodes, ignored \in CascadeMasks : CascadeSubscribe(n, ignored)
    \/ \E by \in {"topic_", "resource"}, n \in TopicNodes,
          f \in SUBSET {"recursive", "subscriber_exception"} : CascadePublish(by, n, f)
    \/ CascadeStep

\* topic nodes without subscriptions, no publish() in progress
CascadeInit ==
    /\ x = 0
    /\ gpc = [t \in GuardThreads |-> "idle"]
    /\ pass = [s \in Slots |-> 0]
    /\ weak = [s \in Slots |-> NoObj]
    /\ uses = [o \in Objs |-> 0]
    /\ life = [o \in Objs |-> "unborn"]
    /\ nextObj = 1
    /\ pc = [t \in Threads |-> "idle"]
    /\ tslot = [t \in Threads |-> ServiceSlot]
    /\ tref = [t \in Threads |-> NoObj]
    /\ tflag = [t \in Threads |-> FALSE]
    /\ held = [t \in Threads |-> NoObj]
    /\ _map = [k \in Keys |-> Absent]
    /\ _mtx = [shared |-> {}, unique |-> {}]
    /\ nuses = [n \in Nodes |-> 0]
    /\ nkey = [n \in Nodes |-> 0]
    /\ nextNode = 1
    /\ kpc = [t \in TableThreads |-> "idle"]
    /\ kkey = [t \in TableThreads |-> 1]
    /\ knode = [t \in TableThreads |-> NoNode]
    /\ chain = 1
    /\ pubHeld = {}
    /\ pubSeen = [o \in Objs |-> 0]
    /\ services = [n \in TopicNodes |-> NoService]
    /\ request = NoRequest
    /\ issued = NoIssue
    /\ subscribers = << >>
    /\ event = NoEvent
    /\ published = NoPublish
    /\ relayed = NoRelay
    /\ converted = NoConverted
    /\ trie = NoTrie
    /\ searched = NoSearched
    /\ id_counter = 1
    /\ ids = [t \in Threads |-> << >>]
    /\ promise = [c \in Clients |-> NoPromise]
    /\ responded = NoResponded
    /\ view = NoView
    /\ bound = NoBound
    /\ visited = NoVisited
    /\ cascade = NoCascade
    /\ gop = [t \in GuardThreads |-> "none"]
    /\ auto = NoAuto
    /\ nservice = [n \in Nodes |-> FALSE]

\* the thread that called publish() is not held up by anyone
SpecCascade == CascadeInit /\ [][CascadeNext]_vars /\ WF_vars(CascadeStep)

\* C32: a publish() call returns, even when every subscriber throws on every
\* event it is called with and some subscribers take the exceptions of
\* subscribers: each exception of an exception subscriber is published one
\* node nearer to the root, and at the root it is dropped.
C32_PublishTerminates ==
    (cascade.stack # << >>) ~> (cascade.stack = << >>)

\* publish() returned after the exception of an exception subscriber on the
\* deepest node was published on the parent
C32_Witness ==
    /\ cascade.by # "none"
    /\ cascade.stack = << >>
    /\ cascade.deepest = 3
    /\ \E i \in 1..Len(subscribers) :
          /\ subscribers[i].node = Depth
          /\ "subscriber_exception" \notin subscribers[i].ignored

(***************************************************************************)
(* auto_request and auto_retrieve: one object from its construction by a   *)
(* topic's request methods to its destruction, over the services of the    *)
(* issue() model.                                                          *)
(***************************************************************************)

\* the ways a caller issues an auto_request: push(), async(), await(), and
\* the conversion operators, which call async() or await()
Through == {"push", "async", "await", "conversion"}

\* the variables the issue() model and the auto_request leave alone
otherVars ==
    <<guardVars, slotVars, tableVars, poolVars, pubVars,
      relayVars, convVars, trieVars, msgVars, futureVars,
      viewVars, bindVars, visitVars, cascadeVars, serveVars>>

AutoKinds == {"auto_request", "auto_retrieve"}

\* auto_request(topic, method, value, flags): a request with a null client
\* that nothing has sent
AutoConstruct(kind, target, resolved, filtering) ==
    /\ auto.state # "alive"
    /\ request' = [target |-> target, resolved |-> resolved,
                   filtering |-> filtering, features |-> {}, _client |-> FALSE]
    /\ auto' = [NoAuto EXCEPT !.state = "alive", !.kind = kind]
    /\ issued' = NoIssue
    /\ UNCHANGED <<otherVars, services>>

\* push() is issue(nullptr); async() is issue(make_shared<client_promise>)
\* and await() is async().get(). What issue() throws reaches the caller,
\* who catches it with the object still in scope.
AutoIssue(through, does) ==
    LET r == topic_issue([request EXCEPT !._client = through # "push"], does) IN
      /\ auto.state = "alive"
      /\ auto.explicit = "none"
      /\ request' = [request EXCEPT !.features = r.features,
                                    !._client = through # "push"]
      /\ auto' = [auto EXCEPT !.explicit = through,
                              !.invoked = @ + Len(r.invoked)]
      /\ issued' = Issued("topic_", does, r)
      /\ UNCHANGED <<otherVars, services>>

\* ~auto_retrieve() {features |= flags::did_send;}, which runs before the
\* destructor of its base
auto_retrieve_destructor(kind, features) ==
    IF kind = "auto_retrieve" THEN features \cup {"did_send"} ELSE features

\* ~auto_request(): if (std::uncaught_exceptions()) return;
\*                  if (!(features & flags::did_send)) this->push();
AutoDestroy(unwinding, does) ==
    LET features == auto_retrieve_destructor(auto.kind, request.features)
        pushes   == ~unwinding /\ "did_send" \notin features
        r        == topic_issue([request EXCEPT !.features = features,
                                                !._client = FALSE], does)
    IN  /\ auto.state = "alive"
        /\ request' = [request EXCEPT
                         !.features = IF pushes THEN r.features ELSE features,
                         !._client = IF pushes THEN FALSE ELSE @]
        /\ auto' = [auto EXCEPT
                      !.state = "destroyed",
                      !.unwinding = unwinding,
                      !.by_destructor = IF pushes THEN 1 ELSE 0,
                      !.invoked = IF pushes THEN @ + Len(r.invoked) ELSE @]
        /\ issued' = IF pushes THEN Issued("topic_", does, r) ELSE NoIssue
        /\ UNCHANGED <<otherVars, services>>

AutoNext ==
    \/ \E n \in TopicNodes, ignored \in ServiceMasks : Serve(n, ignored)
    \/ \E n \in TopicNodes : Unserve(n)
    \/ \E kind \in AutoKinds, n \in TopicNodes, resolved \in BOOLEAN,
          filtering \in SUBSET {"recursive"} :
              AutoConstruct(kind, n, resolved, filtering)
    \/ \E through \in Through, does \in ServiceDoes : AutoIssue(through, does)
    \/ \E unwinding \in BOOLEAN, does \in ServiceDoes :
              AutoDestroy(unwinding, does)

\* topic nodes without services and no auto_request
AutoInit ==
    /\ x = 0
    /\ gpc = [t \in GuardThreads |-> "idle"]
    /\ pass = [s \in Slots |-> 0]
    /\ weak = [s \in Slots |-> NoObj]
    /\ uses = [o \in Objs |-> 0]
    /\ life = [o \in Objs |-> "unborn"]
    /\ nextObj = 1
    /\ pc = [t \in Threads |-> "idle"]
    /\ tslot = [t \in Threads |-> ServiceSlot]
    /\ tref = [t \in Threads |-> NoObj]
    /\ tflag = [t \in Threads |-> FALSE]
    /\ held = [t \in Threads |-> NoObj]
    /\ _map = [k \in Keys |-> Absent]
    /\ _mtx = [shared |-> {}, unique |-> {}]
    /\ nuses = [n \in Nodes |-> 0]
    /\ nkey = [n \in Nodes |-> 0]
    /\ nextNode = 1
    /\ kpc = [t \in TableThreads |-> "idle"]
    /\ kkey = [t \in TableThreads |-> 1]
    /\ knode = [t \in TableThreads |-> NoNode]
    /\ chain = 1
    /\ pubHeld = {}
    /\ pubSeen = [o \in Objs |-> 0]
    /\ services = [n \in TopicNodes |-> NoService]
    /\ request = NoRequest
    /\ issued = NoIssue
    /\ subscribers = << >>
    /\ event = NoEvent
    /\ published = NoPublish
    /\ relayed = NoRelay
    /\ converted = NoConverted
    /\ trie = NoTrie
    /\ searched = NoSearched
    /\ id_counter = 1
    /\ ids = [t \in Threads |-> << >>]
    /\ promise = [c \in Clients |-> NoPromise]
    /\ responded = NoResponded
    /\ view = NoView
    /\ bound = NoBound
    /\ visited = NoVisited
    /\ cascade = NoCascade
    /\ gop = [t \in GuardThreads |-> "none"]
    /\ auto = NoAuto
    /\ nservice = [n \in Nodes |-> FALSE]

SpecAuto == AutoInit /\ [][AutoNext]_vars

\* C36: an auto_request that was destroyed was issued exactly once over its
\* lifetime: one that was issued through push(), async(), await() or a
\* conversion was not issued again by its destructor, one that was never
\* issued and was destroyed outside stack unwinding was pushed once by its
\* destructor, an auto_retrieve was not issued by its destructor, and so no
\* service function was called with it more than once.
C36_IssuedOnce ==
    auto.state = "destroyed" =>
      /\ auto.explicit # "none" => auto.by_destructor = 0
      /\ (auto.explicit = "none" /\ auto.kind = "auto_request" /\ ~auto.unwinding)
            => auto.by_destructor = 1
      /\ auto.kind = "auto_retrieve" => auto.by_destructor = 0
      /\ auto.invoked <= 1

(***************************************************************************)
(* serve() on topics of one path: each call realizes its topic through     *)
(* get_child() on the parent's child table and then emplaces a service in  *)
(* the slot of the node it was given.                                      *)
(***************************************************************************)

\* slot::try_emplace refuses a slot that holds a live service
slot_vacant(n) == ~nservice[n]

\* topic_::serve after _realize(): node->try_emplace_service(node, function).
\* The service returned shares ownership of the node. A call that finds a
\* live service in the slot returns null and changes nothing.
topic_serve(t) ==
    /\ kpc[t] = "idle"
    /\ knode[t] # NoNode
    /\ slot_vacant(knode[t])
    /\ nservice' = [nservice EXCEPT ![knode[t]] = TRUE]
    /\ nuses' = [nuses EXCEPT ![knode[t]] = @ + 1]
    /\ UNCHANGED <<nonServeVars, _map, _mtx, nkey, nextNode, kpc, kkey, knode>>

\* the last handle of the service of node n is dropped, and with it the
\* service's share of the node
service_drop(n) ==
    /\ nservice[n]
    /\ nservice' = [nservice EXCEPT ![n] = FALSE]
    /\ nuses' = [nuses EXCEPT ![n] = @ - 1]
    /\ UNCHANGED <<nonServeVars, _map, _mtx, nkey, nextNode, kpc, kkey, knode>>

ServeNext ==
    \/ TableNext
    \/ \E t \in TableThreads : topic_serve(t)
    \/ \E n \in Nodes : service_drop(n)

\* a parent node with an empty child table
ServeInit ==
    /\ x = 0
    /\ gpc = [t \in GuardThreads |-> "idle"]
    /\ pass = [s \in Slots |-> 0]
    /\ weak = [s \in Slots |-> NoObj]
    /\ uses = [o \in Objs |-> 0]
    /\ life = [o \in Objs |-> "unborn"]
    /\ nextObj = 1
    /\ pc = [t \in Threads |-> "idle"]
    /\ tslot = [t \in Threads |-> ServiceSlot]
    /\ tref = [t \in Threads |-> NoObj]
    /\ tflag = [t \in Threads |-> FALSE]
    /\ held = [t \in Threads |-> NoObj]
    /\ _map = [k \in Keys |-> Absent]
    /\ _mtx = [shared |-> {}, unique |-> {}]
    /\ nuses = [n \in Nodes |-> 0]
    /\ nkey = [n \in Nodes |-> 0]
    /\ nextNode = 1
    /\ kpc = [t \in TableThreads |-> "idle"]
    /\ kkey = [t \in TableThreads |-> 1]
    /\ knode = [t \in TableThreads |-> NoNode]
    /\ chain = 1
    /\ pubHeld = {}
    /\ pubSeen = [o \in Objs |-> 0]
    /\ services = [n \in TopicNodes |-> NoService]
    /\ request = NoRequest
    /\ issued = NoIssue
    /\ subscribers = << >>
    /\ event = NoEvent
    /\ published = NoPublish
    /\ relayed = NoRelay
    /\ converted = NoConverted
    /\ trie = NoTrie
    /\ searched = NoSearched
    /\ id_counter = 1
    /\ ids = [t \in Threads |-> << >>]
    /\ promise = [c \in Clients |-> NoPromise]
    /\ responded = NoResponded
    /\ view = NoView
    /\ bound = NoBound
    /\ visited = NoVisited
    /\ cascade = NoCascade
    /\ gop = [t \in GuardThreads |-> "none"]
    /\ auto = NoAuto
    /\ nservice = [n \in Nodes |-> FALSE]

SpecServe == ServeInit /\ [][ServeNext]_vars

\* the nodes of id k that hold a live service
Served(k) == {n \in Nodes : nkey[n] = k /\ nservice[n]}

\* C37: whatever the interleaving of serve() calls on topics of one path, at
\* most one service of the path is alive at a time, and the parent's table
\* leads requests for the path to the node that holds it.
C37_OneServicePerPath ==
    /\ \A k \in Keys : Cardinality(Served(k)) <= 1
    /\ \A k \in Keys : \A n \in Served(k) : entry_lock(k) = n

\* C39: a request issued to a topic that a successfully made service relay
\* serves is dispatched a bounded number of times and issue() returns or
\* throws: the relay's function is never entered from inside itself, also
\* when the relay's destination is its own source topic.
C39_RelaysTerminate ==
    (issued.by = "issue" /\ relayed.by = "forward_requests" /\ relayed.made)
        => issued.outcome # "stack_overflow"

=============================================================================
